---- MODULE Spec2Model ----
(***************************************************************************)
(* A model of the periodicity detection, peak grouping, cross-pattern      *)
(* clustering and group intensity code of rhana:                           *)
(*   src/rhana/spectrum.py        (peak distance engine, peak groups)      *)
(*   src/rhana/phaser/distance.py (DBSCANDistanceCluster)                  *)
(*   src/rhana/pattern.py         (RheedMask)                              *)
(* Each component has its own specification over the shared variables; a   *)
(* component that a specification does not exercise stays idle.            *)
(***************************************************************************)
EXTENDS Integers, Sequences, FiniteSets, TLC

VARIABLES
    pc,              \* position of the operation under way
    \* ---- Spectrum.get_peaks_group
    ana_res,         \* list of PeakAnalysisResult: [peaks_family, avg_dist]
    npeaks,          \* len(peaks)
    exclusive,       \* the exclusive flag
    groups,          \* the returned list of (members, distance)
    \* ---- DBSCANDistanceCluster
    dists,           \* the values handed to fit_predict
    eps,             \* DBSCAN neighbourhood radius
    min_samples,     \* DBSCAN core threshold
    model_labels,    \* self.model.labels_: the labels of the density pass
    labels,          \* self.labels
    mean_dists,      \* self.mean_dists
    \* ---- peak distance engine (Spectrum / RheedMask analyze_peaks_distance_cent)
    speclen,         \* len(self.ws), resp. self.rd.pattern.shape[1]
    ws_start,        \* ws[0] of the spectrum (ws = arange(sy, ey))
    peaks,           \* self.peaks (indices), resp. the flattened peak positions
    tolerant,        \* relative tolerance, in units of 1/TolDen
    abs_tolerant,    \* absolute tolerance
    allow_discontinue,
    entry,           \* which entry point ran: "spectrum" or "mask"
    center_peak_i,   \* the center index the entry point computed
    center_nbr_dists, \* the distances handed to the family search, <<>> if none
    ana_raised,      \* the call ended in an exception
    families,        \* the returned list of PeakAnalysisResult
    \* ---- RheedMask.get_group_intensity
    pattern,         \* self.rd.pattern: [h, w, pix]
    regions,         \* self.regions: bounding boxes [minr, minc, maxr, maxc]
    collapses_peaks, \* per region, the peak indices of its spectrum
    flatten_pids,    \* self.collapses_peaks_flatten_pids (the argsort)
    flatten_regions, \* self.collapses_peaks_flatten_regions
    flatten_cis,     \* self.collapses_peaks_flatten_cis
    flatten_ana_res, \* peaks_family of each self.collapses_peaks_flatten_ana_res
    cluster_labels,  \* self.cluster_labels, one label per family
    cluster_labels_unique,
    gi_i,            \* the index i of the label loop
    gi_work,         \* the peaks of label i still to visit
    group_mask,      \* the mask of the label under way (set of pixels)
    group_intensity,
    group_percent,   \* [bound, val]: not bound until first assigned
    gauss_fit,       \* the per-region fit cache: rid -> popt
    warnings,        \* the warnings emitted so far
    fit_outcome,     \* what the fitter call under way will do
    fit_calls,       \* per region, how often curve_fit was called
    fit_failed,      \* the regions whose fit raised
    label_masks,     \* the final mask of every finished label
    gi_error,        \* the exception get_group_intensity ended with
    \* ---- Spectrum and its mutations
    sp_heap,         \* the Spectrum objects that exist: id -> [spec, ws]
    sp_cur,          \* the object the next operation is called on
    sp_last,         \* the last call: operation, arguments, receiver, result
    sp_steps,        \* how many operations were called
    sp_ws0,          \* ws of the first Spectrum
    \* ---- RheedMask.clean_collapse
    cc_collapses,    \* self.collapses: list of [spec, ws]
    cc_before,       \* self.collapses when clean_collapse was called
    cc_flags,        \* the arguments smooth, rm_bg, scale
    cc_warnings,     \* indices of the spectra a warning was issued for
    cc_log,          \* the calls that returned: <<index, method>>
    cc_raised,       \* the exception that left clean_collapse, or "none"
    \* ---- SpectrumModel.from_peaks
    fm_config,       \* SpectrumModelConfig: the fields that select the models
    fm_npeaks,       \* len(peaks)
    fm_by,           \* the argument by
    fm_sub_models,   \* sub_models of the SpectrumModel built
    fm_raised,       \* the exception that left from_peaks, or "none"
    \* ---- Rheed.get_direct_beam, Rheed.get_specular_spot
    bm_stored,       \* hasattr(self, "blobs")
    bm_blobs,        \* self.blobs: list of [x, y, r]
    bm_rmin,         \* the argument rmin of get_direct_beam
    bm_db,           \* self.db: <<x, y>>, or <<>> for None
    bm_db_i,         \* self.db_i
    bm_ss,           \* self.ss: <<x, y, r>>, or <<>> for None
    bm_ss_i,         \* the index get_specular_spot returned
    bm_raised,       \* the exception that left the call, or "none"
    \* ---- get_all_nbr_idxs (the generator)
    nb_center_i,     \* the argument center_i
    nb_maxidx,       \* max(idxs)
    nb_level,
    nb_endleft,
    nb_endright,
    nb_out,          \* the indices yielded so far, in order
    \* ---- create_grid
    gr_start,
    gr_end,
    gr_center,
    gr_dist,
    gr_grid,         \* the returned array
    \* ---- RHEEDMaskDistancePhaser.run_cluster
    ph_rdms,         \* per pattern, the avg_dist of its families in order
    ph_eps,
    ph_min_samples,
    ph_tie,          \* how this platform's argsort orders equal means
    ph_all_peak_dists, \* self.all_peak_dists: <<<<i, j>>, dist>>
    ph_labels,       \* self.dc.labels
    ph_cluster_labels, \* per pattern, rdm.cluster_labels
    ph_unique,       \* per pattern, rdm.cluster_labels_unique
    ph_prev,         \* the cluster_labels the run before returned
    ph_runs,         \* how many times run_cluster was called
    ph_raised        \* the exception that left the last call, or "none"

groupVars == <<ana_res, npeaks, exclusive, groups>>

clusterVars == <<dists, eps, min_samples, model_labels, labels, mean_dists>>

engineIn == <<speclen, ws_start, peaks, tolerant, abs_tolerant, allow_discontinue>>

engineVars == <<engineIn, entry, center_peak_i, center_nbr_dists, ana_raised, families>>

intensityIn == <<pattern, regions, collapses_peaks, flatten_pids, flatten_regions,
                 flatten_cis, flatten_ana_res, cluster_labels,
                 cluster_labels_unique>>

intensityVars == <<intensityIn, gi_i, gi_work, group_mask, group_intensity,
                   group_percent, gauss_fit, warnings, fit_outcome, fit_calls,
                   fit_failed, label_masks, gi_error>>

spectrumVars == <<sp_heap, sp_cur, sp_last, sp_steps, sp_ws0>>

cleanVars == <<cc_collapses, cc_before, cc_flags, cc_warnings, cc_log, cc_raised>>

modelVars == <<fm_config, fm_npeaks, fm_by, fm_sub_models, fm_raised>>

beamVars == <<bm_stored, bm_blobs, bm_rmin, bm_db, bm_db_i, bm_ss, bm_ss_i, bm_raised>>

nbrVars == <<nb_center_i, nb_maxidx, nb_level, nb_endleft, nb_endright, nb_out>>

gridVars == <<gr_start, gr_end, gr_center, gr_dist, gr_grid>>

phaserVars == <<ph_rdms, ph_eps, ph_min_samples, ph_tie, ph_all_peak_dists, ph_labels,
                ph_cluster_labels, ph_unique, ph_prev, ph_runs, ph_raised>>

lateVars == <<nbrVars, gridVars, phaserVars>>

midVars == <<spectrumVars, cleanVars, modelVars, beamVars>>

restVars == <<midVars, lateVars>>

coreVars == <<groupVars, clusterVars, engineVars, intensityVars>>

spectrumOthers == <<coreVars, cleanVars, modelVars, beamVars, lateVars>>

cleanOthers == <<coreVars, spectrumVars, modelVars, beamVars, lateVars>>

modelOthers == <<coreVars, spectrumVars, cleanVars, beamVars, lateVars>>

beamOthers == <<coreVars, spectrumVars, cleanVars, modelVars, lateVars>>

nbrOthers == <<coreVars, midVars, gridVars, phaserVars>>

gridOthers == <<coreVars, midVars, nbrVars, phaserVars>>

phaserOthers == <<coreVars, midVars, nbrVars, gridVars>>

vars == <<pc, groupVars, clusterVars, engineVars, intensityVars, restVars>>

----------------------------------------------------------------------------
(* Generic helpers *)

Range(s) == {s[i] : i \in 1..Len(s)}

RECURSIVE SumSeq(_)
SumSeq(s) == IF s = <<>> THEN 0 ELSE Head(s) + SumSeq(Tail(s))

RECURSIVE SetToSeq(_)
\* the members of a set of integers in ascending order
SetToSeq(S) ==
    IF S = {} THEN <<>>
    ELSE LET m == CHOOSE x \in S : \A y \in S : x <= y
         IN <<m>> \o SetToSeq(S \ {m})

SeqsUpTo(S, n) == UNION {[1..k -> S] : k \in 0..n}

Abs(x) == IF x < 0 THEN -x ELSE x

Min(a, b) == IF a <= b THEN a ELSE b

Max(a, b) == IF a >= b THEN a ELSE b

\* Python indexing of a 0-based array held as a 1-based sequence: a negative
\* index counts from the end.
PyIndex(arr, k) == IF k < 0 THEN arr[Len(arr) + k + 1] ELSE arr[k + 1]

\* Floating point quotients and means are kept exact, as a numerator over a
\* positive denominator.
Rat(n, d) == [num |-> n, den |-> d]

RatLeq(a, b) == a.num * b.den <= b.num * a.den

RatLess(a, b) == a.num * b.den < b.num * a.den

RatEq(a, b) == a.num * b.den = b.num * a.den

RatAdd(a, b) == Rat(a.num * b.den + b.num * a.den, a.den * b.den)

RatSub(a, b) == Rat(a.num * b.den - b.num * a.den, a.den * b.den)

RatAbs(a) == Rat(Abs(a.num), a.den)

\* x / y for integers x and y # 0
RatDiv(x, y) == IF y < 0 THEN Rat(-x, -y) ELSE Rat(x, y)

RECURSIVE GCD(_, _)
GCD(a, b) == IF b = 0 THEN a ELSE GCD(b, a % b)

\* lowest terms, so that equal values are equal records
RatNorm(a) ==
    LET g == GCD(Abs(a.num), a.den)
    IN IF g = 0 THEN a ELSE Rat(a.num \div g, a.den \div g)

RECURSIVE RatSum(_)
RatSum(s) == IF s = <<>> THEN Rat(0, 1) ELSE RatAdd(Head(s), RatSum(Tail(s)))

----------------------------------------------------------------------------
(* Spectrum.get_peaks_group                                                *)

MaxGroupPeaks == 3
MaxFamilies == 2
MaxAvgDist == 2

\* np.inf as an avg_dist value
Inf == MaxAvgDist + 1

\* the sentinel distance of the leftover group
LeftoverDist == -1

\* Python's sorted(..., key=lambda x: x[1]) is stable: insert each element
\* after the last element whose key is not larger.
RECURSIVE InsertByDist(_, _)
InsertByDist(sorted, x) ==
    IF sorted = <<>> THEN <<x>>
    ELSE IF x.avg_dist < Head(sorted).avg_dist
         THEN <<x>> \o sorted
         ELSE <<Head(sorted)>> \o InsertByDist(Tail(sorted), x)

SortByDistSkipped(s) == s

RECURSIVE SortByDist(_)
SortByDist(s) ==
    IF s = <<>> THEN <<>>
    ELSE InsertByDist(SortByDist(SubSeq(s, 1, Len(s) - 1)), s[Len(s)])

\* the test of lines 330-331
FamilyAcceptedAlways(f, selected, excl) == f.avg_dist < Inf

FamilyAcceptedInfiniteToo(f, selected, excl) ==
    ~excl \/ f.peaks_family \cap selected = {}

FamilyAccepted(f, selected, excl) ==
    /\ f.avg_dist < Inf
    /\ (~excl \/ f.peaks_family \cap selected = {})

\* selected[family] = True happens only inside the accepting branch
SelectedAfterAlways(selected, f, accepted) == selected \cup f.peaks_family

SelectedAfter(selected, f, accepted) ==
    IF accepted THEN selected \cup f.peaks_family ELSE selected

RECURSIVE GroupLoop(_, _, _, _, _)
\* the loop of lines 329-333 from family k on; returns <<out, selected>>
GroupLoop(fams, k, selected, out, excl) ==
    IF k > Len(fams) THEN <<out, selected>>
    ELSE LET f == fams[k]
             acc == FamilyAccepted(f, selected, excl)
         IN GroupLoop(fams, k + 1, SelectedAfter(selected, f, acc),
                      IF acc THEN Append(out, [members |-> f.peaks_family,
                                               dist |-> f.avg_dist,
                                               leftover |-> FALSE])
                             ELSE out,
                      excl)

get_peaks_group(res, n, excl) ==
    LET r == GroupLoop(SortByDist(res), 1, {}, <<>>, excl)
    IN Append(r[1], [members |-> (0..(n - 1)) \ r[2],
                     dist |-> LeftoverDist,
                     leftover |-> TRUE])

Families(n) ==
    [peaks_family : (SUBSET (0..(n - 1))) \ {{}}, avg_dist : 1..Inf]

GroupInit ==
    /\ npeaks \in 0..MaxGroupPeaks
    /\ ana_res \in SeqsUpTo(Families(npeaks), MaxFamilies)
    /\ exclusive \in BOOLEAN
    /\ groups = <<>>

GroupIdle ==
    /\ npeaks = 0
    /\ ana_res = <<>>
    /\ exclusive = FALSE
    /\ groups = <<>>

GetPeaksGroup ==
    /\ pc = "group"
    /\ groups' = get_peaks_group(ana_res, npeaks, exclusive)
    /\ pc' = "grouped"
    /\ UNCHANGED <<ana_res, npeaks, exclusive>>
    /\ UNCHANGED <<clusterVars, engineVars, intensityVars, restVars>>

----------------------------------------------------------------------------
(* DBSCANDistanceCluster                                                   *)

MaxVals == 5
MaxVal == 5
MaxEps == 1
MaxMinSamples == 2

\* ---- sklearn.cluster.DBSCAN(eps, min_samples) on 1-D values
Neighbours(d, e, i) == {j \in 1..Len(d) : Abs(d[i] - d[j]) <= e}

CorePoints(d, e, ms) == {i \in 1..Len(d) : Cardinality(Neighbours(d, e, i)) >= ms}

RECURSIVE CoreReach(_, _, _, _)
\* the core points density-connected to the core points in S
CoreReach(d, e, core, S) ==
    LET more == {j \in core : \E i \in S : j \in Neighbours(d, e, i)}
    IN IF more \subseteq S THEN S ELSE CoreReach(d, e, core, S \cup more)

RECURSIVE DBSCANLoop(_, _, _, _, _, _)
\* the scan over the samples in index order: an unlabelled core point starts
\* cluster label_num, which takes every sample density-reachable from it that
\* is still unlabelled (border points join the first cluster reaching them);
\* what is never reached keeps -1
DBSCANLoop(d, e, core, i, lab, label_num) ==
    IF i > Len(d) THEN lab
    ELSE IF lab[i] # -1 \/ i \notin core
         THEN DBSCANLoop(d, e, core, i + 1, lab, label_num)
         ELSE LET comp == CoreReach(d, e, core, {i})
                  reached == UNION {Neighbours(d, e, c) : c \in comp}
              IN DBSCANLoop(d, e, core, i + 1,
                            [j \in 1..Len(d) |->
                                IF j \in reached /\ lab[j] = -1
                                THEN label_num ELSE lab[j]],
                            label_num + 1)

DBSCAN(d, e, ms) ==
    DBSCANLoop(d, e, CorePoints(d, e, ms), 1, [i \in 1..Len(d) |-> -1], 0)

RECURSIVE SumAt(_, _)
SumAt(d, S) ==
    IF S = {} THEN 0
    ELSE LET i == CHOOSE x \in S : TRUE IN d[i] + SumAt(d, S \ {i})

\* np.mean(dists[labels == l])
MeanOf(d, lab, l) ==
    LET S == {i \in 1..Len(d) : lab[i] = l}
    IN Rat(SumAt(d, S), Cardinality(S))

\* what one iteration of the loop of _mean_dist appends for label l: the
\* sentinel for l = -1, and (with no else) the mean of the label as well
MeanEntries(d, lab, l) ==
    (IF l = -1 THEN <<Rat(-1, 1)>> ELSE <<>>) \o <<MeanOf(d, lab, l)>>

RECURSIVE MeanLoop(_, _, _)
MeanLoop(d, lab, ls) ==
    IF ls = <<>> THEN <<>>
    ELSE MeanEntries(d, lab, Head(ls)) \o MeanLoop(d, lab, Tail(ls))

_mean_dist(d, lab) == MeanLoop(d, lab, SetToSeq(Range(lab)))

RECURSIVE ArgSorts(_, _)
\* np.argsort(means) (0-based indices): every ordering of the indices in S by
\* ascending mean; the default sort kind leaves the order of ties open
ArgSorts(means, S) ==
    IF S = {} THEN {<<>>}
    ELSE UNION {{<<m>> \o t : t \in ArgSorts(means, S \ {m})} :
                m \in {x \in S : \A y \in S : RatLeq(means[x + 1], means[y + 1])}}

MapperUnsorted(sorted_mean_idx) ==
    [j \in 1..Len(sorted_mean_idx) |-> j - 1]

\* mapper[j] = i for i, j in enumerate(sorted_mean_idx)
Mapper(sorted_mean_idx) ==
    [j \in 1..Len(sorted_mean_idx) |->
        (CHOOSE i \in 1..Len(sorted_mean_idx) : sorted_mean_idx[i] = j - 1) - 1]

\* self.labels = mapper[self.labels]
Relabel(mapper, lab) == [i \in 1..Len(lab) |-> PyIndex(mapper, lab[i])]

ClusterInit ==
    /\ dists \in SeqsUpTo(1..MaxVal, MaxVals) \ {<<>>}
    /\ eps \in 1..MaxEps
    /\ min_samples \in 1..MaxMinSamples
    /\ model_labels = <<>>
    /\ labels = <<>>
    /\ mean_dists = <<>>

ClusterIdle ==
    /\ dists = <<>>
    /\ eps = 1
    /\ min_samples = 1
    /\ model_labels = <<>>
    /\ labels = <<>>
    /\ mean_dists = <<>>

FitPredict ==
    /\ pc = "cluster"
    /\ LET lab0 == DBSCAN(dists, eps, min_samples)
           means == _mean_dist(dists, lab0)
       IN \E sorted_mean_idx \in ArgSorts(means, 0..(Len(means) - 1)) :
            /\ model_labels' = lab0
            /\ mean_dists' = [i \in 1..Len(means) |-> means[sorted_mean_idx[i] + 1]]
            /\ labels' = Relabel(Mapper(sorted_mean_idx), lab0)
    /\ pc' = "clustered"
    /\ UNCHANGED <<dists, eps, min_samples>>
    /\ UNCHANGED <<groupVars, engineVars, intensityVars, restVars>>

----------------------------------------------------------------------------
(* Peak distance engine: src/rhana/spectrum.py lines 31-143 and 271-284,   *)
(* src/rhana/pattern.py lines 926-972.  Indices are 0-based as in the      *)
(* code; arrays are 1-based sequences, so index i is held at position i+1. *)

MaxSpecLen == 9
MaxPeaks == 4
MaxWsStart == 1
TolDen == 4
MaxTolNum == 2
MaxAbsTol == 2
MaxDiscontinue == 1

\* np.argmin: the first index (0-based) of the smallest entry
ArgMin(a) ==
    (CHOOSE i \in 1..Len(a) :
        /\ \A k \in 1..Len(a) : a[i] <= a[k]
        /\ \A k \in 1..(i - 1) : a[k] > a[i]) - 1

\* scipy.spatial.distance_matrix of 1-D positions
DistanceMatrix(w) ==
    [i \in 1..Len(w) |-> [j \in 1..Len(w) |-> Abs(w[i] - w[j])]]

\* m[np.tril_indices_from(m)] = -m[np.tril_indices_from(m)]
NegateLower(m) ==
    [i \in 1..Len(m) |-> [j \in 1..Len(m) |->
        IF j <= i THEN -m[i][j] ELSE m[i][j]]]

RECURSIVE LowerTriangle(_, _)
\* dm[np.tril_indices_from(dm, -1)]: rows 1..i, the entries left of the diagonal
LowerTriangle(m, i) ==
    IF i = 0 THEN <<>>
    ELSE LowerTriangle(m, i - 1) \o [j \in 1..(i - 1) |-> m[i][j]]

get_peaks_distance(peaks_w, full, polar) ==
    IF ~full THEN LowerTriangle(DistanceMatrix(peaks_w), Len(peaks_w))
    ELSE IF polar THEN NegateLower(DistanceMatrix(peaks_w))
    ELSE DistanceMatrix(peaks_w)

\* the multiples k of dist in the grid: np.arange(ln+1, rn+1)
GridMultiples(start, end, center, dist) ==
    LET rn == (end - center) \div dist
        ln == (start - center) \div dist
    IN [k \in 1..(rn - ln) |-> ln + k]

create_grid(start, end, center, dist) ==
    LET ks == GridMultiples(start, end, center, dist)
    IN [k \in 1..Len(ks) |-> ks[k] * dist]

get_center_peak_idxs(pk, spec_center_loc, tol) ==
    {i \in 0..(Len(pk) - 1) : Abs(pk[i + 1] - spec_center_loc) < tol}

\* lines 65-68; the caller makes sure pk is not empty (np.argmin raises)
get_center_peak_idx(pk, spec_center_loc, tol) ==
    LET ci == ArgMin([i \in 1..Len(pk) |-> Abs(pk[i] - spec_center_loc)])
    IN IF pk[ci + 1] - spec_center_loc < tol THEN ci ELSE -1

RECURSIVE NbrLoop(_, _, _, _, _)
\* the while loop of get_all_nbr_idxs entered with the given level and flags
NbrLoop(center_i, maxidx, level, endleft, endright) ==
    IF endleft /\ endright THEN <<>>
    ELSE LET lv == level + 1
             left == center_i - lv >= 0
             right == center_i + lv <= maxidx
         IN (IF left THEN <<center_i - lv>> ELSE <<>>)
            \o (IF right THEN <<center_i + lv>> ELSE <<>>)
            \o NbrLoop(center_i, maxidx, lv, endleft \/ ~left, endright \/ ~right)

\* the indices the generator yields, in order; idxs is np.arange(n), n > 0
get_all_nbr_idxs(center_i, n) == NbrLoop(center_i, n - 1, 0, FALSE, FALSE)

WithinToleranceRelative(err, dist, tol, atol) == err * tol.den < tol.num * dist

\* np.abs(match_error) < min(tolerant * dist, abs_tolerant), tol exact
WithinTolerance(err, dist, tol, atol) ==
    /\ err * tol.den < tol.num * dist
    /\ err < atol

HypothesisAnyGap(cnd, cp, dist, gmin, gmax, tol, atol, disc) ==
    LET ks == GridMultiples(gmin, gmax, cp, dist)
        grid == create_grid(gmin, gmax, cp, dist)
        close == [i \in 1..Len(cnd) |->
                    ArgMin([g \in 1..Len(grid) |-> Abs(cnd[i] - grid[g])])]
        match_error == [i \in 1..Len(cnd) |-> Abs(cnd[i] - grid[close[i] + 1])]
        idx == {i \in 0..(Len(cnd) - 1) :
                    WithinTolerance(match_error[i + 1], dist, tol, atol)}
    IN [idx |-> idx,
        gidx |-> [i \in idx |-> close[i + 1]],
        multi |-> [i \in idx |-> ks[close[i + 1] + 1]],
        uni_gidx |-> SetToSeq({close[i + 1] : i \in idx}),
        allowed |-> TRUE]

\* lines 112-128 for the seed distance dist: the selected peaks idx (0-based),
\* the grid index each peak is closest to, and the multiple of that grid line
Hypothesis(cnd, cp, dist, gmin, gmax, tol, atol, disc) ==
    LET ks == GridMultiples(gmin, gmax, cp, dist)
        grid == create_grid(gmin, gmax, cp, dist)
        close == [i \in 1..Len(cnd) |->
                    ArgMin([g \in 1..Len(grid) |-> Abs(cnd[i] - grid[g])])]
        match_error == [i \in 1..Len(cnd) |-> Abs(cnd[i] - grid[close[i] + 1])]
        idx == {i \in 0..(Len(cnd) - 1) :
                    WithinTolerance(match_error[i + 1], dist, tol, atol)}
        uni_gidx == SetToSeq({close[i + 1] : i \in idx})
    IN [idx |-> idx,
        gidx |-> [i \in idx |-> close[i + 1]],
        multi |-> [i \in idx |-> ks[close[i + 1] + 1]],
        uni_gidx |-> uni_gidx,
        allowed |-> \A k \in 1..(Len(uni_gidx) - 1) :
                        uni_gidx[k + 1] - uni_gidx[k] <= disc + 1]

\* line 130
HypothesisAcceptedAnySize(h) == h.allowed /\ Len(h.uni_gidx) > 0

HypothesisAccepted(h) == h.allowed /\ Len(h.uni_gidx) > 1

PeakAnalysisResultUndivided(cnd, h, dist, j) ==
    LET nz == SetToSeq({i \in h.idx : h.multi[i] # 0})
        total == RatSum([k \in 1..Len(nz) |-> Rat(cnd[nz[k] + 1], 1)])
    IN [peaks_family |-> h.idx,
        avg_dist |-> RatNorm(Rat(total.num, total.den * Len(nz))),
        avg_err |-> Rat(0, 1),
        matched |-> h.multi,
        dist |-> dist,
        seed |-> j]

\* lines 134-141; matched, dist and seed record which grid multiples the
\* members were matched on and which hypothesis produced the family
PeakAnalysisResult(cnd, h, dist, j) ==
    LET nz == SetToSeq({i \in h.idx : h.multi[i] # 0})
        ratio == [k \in 1..Len(nz) |-> RatDiv(cnd[nz[k] + 1], h.multi[nz[k]])]
        total == RatSum(ratio)
        avg_dist == RatNorm(Rat(total.num, total.den * Len(nz)))
        errs == RatSum([k \in 1..Len(nz) |-> RatAbs(RatSub(ratio[k], avg_dist))])
    IN [peaks_family |-> h.idx,
        avg_dist |-> avg_dist,
        avg_err |-> RatNorm(Rat(errs.num, errs.den * Len(nz))),
        matched |-> h.multi,
        dist |-> dist,
        seed |-> j]

RECURSIVE EngineLoop(_, _, _, _, _, _, _, _, _, _, _)
\* the for loop of lines 105-141 from the k-th yielded neighbour on
EngineLoop(js, k, mask, out, cnd, cp, ci, gmin, gmax, tol, ad) ==
    IF k > Len(js) THEN [raised |-> FALSE, out |-> out]
    ELSE LET j == js[k]
             row == IF ci < 0 THEN Len(cnd) + ci ELSE ci
             dist == Abs(cnd[j + 1])
         IN IF ci = j \/ <<row, j>> \in mask \/ dist <= ad[1]
            THEN EngineLoop(js, k + 1, mask, out, cnd, cp, ci, gmin, gmax, tol, ad)
            ELSE IF Len(GridMultiples(gmin, gmax, cp, dist)) = 0
                 THEN \* argmin over an empty grid raises ValueError
                      [raised |-> TRUE, out |-> out]
                 ELSE LET h == Hypothesis(cnd, cp, dist, gmin, gmax, tol, ad[1], ad[2])
                      IN IF HypothesisAccepted(h)
                         THEN EngineLoop(js, k + 1, mask \cup (h.idx \X h.idx),
                                         Append(out, PeakAnalysisResult(cnd, h, dist, j)),
                                         cnd, cp, ci, gmin, gmax, tol, ad)
                         ELSE EngineLoop(js, k + 1, mask, out,
                                         cnd, cp, ci, gmin, gmax, tol, ad)

\* lines 98-143
analyze_peaks_distance_cent(pk, cnd, cp, ci, gmin, gmax, tol, atol, disc) ==
    EngineLoop(get_all_nbr_idxs(ci, Len(pk)), 1, {}, <<>>,
               cnd, cp, ci, gmin, gmax, tol, <<atol, disc>>)

\* Spectrum.analyze_peaks_distance_cent, lines 271-284, on ws = arange(w0, w0 + n)
SpectrumAnalyzeResult(n, w0, pk, tol, atol, disc) ==
    LET grid_max_w == w0 + n - 1
        peaks_w == [i \in 1..Len(pk) |-> w0 + pk[i]]
        interdist == NegateLower(get_peaks_distance(peaks_w, TRUE, TRUE))
    IN IF Len(pk) = 0 THEN [raised |-> TRUE, out |-> <<>>, ci |-> -1, cnd |-> <<>>]
       ELSE LET ci == get_center_peak_idx(pk, n \div 2, atol)
            IN IF ci = -1 THEN [raised |-> FALSE, out |-> <<>>, ci |-> -1, cnd |-> <<>>]
               ELSE LET r == analyze_peaks_distance_cent(pk, interdist[ci + 1],
                                     pk[ci + 1], ci, 0, grid_max_w, tol, atol, disc)
                    IN [raised |-> r.raised, out |-> r.out, ci |-> ci,
                        cnd |-> interdist[ci + 1]]

\* RheedMask.analyze_peaks_distance_cent, lines 942-972, on the sorted
\* flattened peak positions allpeaks and a pattern of n columns
MaskAnalyzeResult(n, allpeaks, tol, atol, disc) ==
    IF Len(allpeaks) = 0 THEN [raised |-> TRUE, out |-> <<>>, ci |-> -1, cnd |-> <<>>]
    ELSE LET ci == get_center_peak_idx(allpeaks, n \div 2, atol)
             ciw == PyIndex(allpeaks, ci)
             inter_dist == get_peaks_distance(allpeaks, TRUE, TRUE)
             r == analyze_peaks_distance_cent(allpeaks, PyIndex(inter_dist, ci),
                                              ciw, ci, 0, n, tol, atol, disc)
         IN [raised |-> r.raised, out |-> r.out, ci |-> ci,
             cnd |-> PyIndex(inter_dist, ci)]

IsSorted(sq) == \A i \in 1..(Len(sq) - 1) : sq[i] <= sq[i + 1]

IsStrictlySorted(sq) == \A i \in 1..(Len(sq) - 1) : sq[i] < sq[i + 1]

EngineInit ==
    /\ speclen \in (MaxSpecLen - 1)..MaxSpecLen
    /\ ws_start \in 0..MaxWsStart
    /\ peaks \in {sq \in SeqsUpTo(0..(speclen - 1), MaxPeaks) : IsSorted(sq)}
    /\ tolerant \in {Rat(k, TolDen) : k \in 1..MaxTolNum}
    /\ abs_tolerant \in 0..MaxAbsTol
    /\ allow_discontinue \in 0..MaxDiscontinue
    /\ entry = "none"
    /\ center_peak_i = -1
    /\ center_nbr_dists = <<>>
    /\ ana_raised = FALSE
    /\ families = <<>>

EngineIdle ==
    /\ speclen = 0
    /\ ws_start = 0
    /\ peaks = <<>>
    /\ tolerant = Rat(1, TolDen)
    /\ abs_tolerant = 0
    /\ allow_discontinue = 0
    /\ entry = "none"
    /\ center_peak_i = -1
    /\ center_nbr_dists = <<>>
    /\ ana_raised = FALSE
    /\ families = <<>>

\* Spectrum.analyze_peaks_distance_cent; self.peaks comes from find_peaks,
\* whose indices are strictly increasing
SpectrumAnalyze ==
    /\ pc = "analyze"
    /\ IsStrictlySorted(peaks)
    /\ LET r == SpectrumAnalyzeResult(speclen, ws_start, peaks, tolerant,
                                      abs_tolerant, allow_discontinue)
       IN /\ families' = r.out
          /\ ana_raised' = r.raised
          /\ center_peak_i' = r.ci
          /\ center_nbr_dists' = r.cnd
    /\ entry' = "spectrum"
    /\ pc' = "analyzed"
    /\ UNCHANGED <<engineIn, groupVars, clusterVars, intensityVars, restVars>>

\* RheedMask.analyze_peaks_distance_cent on the flattened, sorted positions
MaskAnalyze ==
    /\ pc = "analyze"
    /\ LET r == MaskAnalyzeResult(speclen, peaks, tolerant,
                                  abs_tolerant, allow_discontinue)
       IN /\ families' = r.out
          /\ ana_raised' = r.raised
          /\ center_peak_i' = r.ci
          /\ center_nbr_dists' = r.cnd
    /\ entry' = "mask"
    /\ pc' = "analyzed"
    /\ UNCHANGED <<engineIn, groupVars, clusterVars, intensityVars, restVars>>

----------------------------------------------------------------------------
(* RheedMask.get_group_intensity: src/rhana/pattern.py lines 1095-1175.    *)
(* Pixels are <<row, column>> pairs; a mask is the set of its True pixels. *)
(* Regions are rectangular: region.image is True on the whole bounding     *)
(* box.  The regions were cut from a mask of PatH x MaskW pixels; the      *)
(* pattern may since have been cropped in place (RheedMask.crop, lines     *)
(* 646-649), which leaves self.regions as they were.                       *)

PatH == 1
MaskW == 5
MaxPix == 1
MaxRegions == 2
MaxRegionPeaks == 2
MaxTotalPeaks == 3
MaxIntensityFamilies == 2
MaxLabel == 1
CenterTol == 1
MaxFitShift == 1
MaxFitSigma == 1

Boxes(h, w) ==
    {b \in [minr : 0..(h - 1), minc : 0..(w - 1), maxr : 1..h, maxc : 1..w] :
        b.minr < b.maxr /\ b.minc < b.maxc}

\* skimage.measure.label joins pixels that touch, diagonally too, so two
\* regions never touch; regionprops lists regions in raster order
Touching(a, b) ==
    /\ a.minr <= b.maxr /\ b.minr <= a.maxr
    /\ a.minc <= b.maxc /\ b.minc <= a.maxc

RasterBefore(a, b) ==
    a.minr < b.minr \/ (a.minr = b.minr /\ a.minc < b.minc)

RegionLists(h, w) ==
    {rs \in SeqsUpTo(Boxes(h, w), MaxRegions) :
        \A i, j \in 1..Len(rs) :
            i < j => ~Touching(rs[i], rs[j]) /\ RasterBefore(rs[i], rs[j])}

\* find_peaks on a spectrum of the given length: strictly increasing indices;
\* a region where no peak was found plays no part and is left out
PeakLists(len) ==
    {sq \in SeqsUpTo(0..(len - 1), MaxRegionPeaks) :
        sq # <<>> /\ IsStrictlySorted(sq)}

RECURSIVE UnsortedFrom(_, _, _)
\* itertools.chain over the regions (lines 913-915): region id and position
\* ws[peak] of every peak, ws = arange(minc, maxc)
UnsortedFrom(regs, cps, rid) ==
    IF rid > Len(regs) THEN <<>>
    ELSE [k \in 1..Len(cps[rid]) |->
             [rid |-> rid - 1, w |-> regs[rid].minc + cps[rid][k]]]
         \o UnsortedFrom(regs, cps, rid + 1)

Unsorted(regs, cps) == UnsortedFrom(regs, cps, 1)

\* the arrays _flatten_peaks leaves behind, indexed by flattened peak p
FlattenRegions(regs, cps, pids) ==
    [p \in 1..Len(pids) |-> Unsorted(regs, cps)[pids[p] + 1].rid]

FlattenWs(regs, cps, pids) ==
    [p \in 1..Len(pids) |-> Unsorted(regs, cps)[pids[p] + 1].w]

\* np.unique(rdm.cluster_labels), distance.py line 79
np_unique(cl) == SetToSeq(Range(cl))

RECURSIVE WorkFrom(_, _, _, _)
\* the peaks p the loops of lines 1115-1118 visit for label ul, in order
WorkFrom(res, cl, ul, k) ==
    IF k > Len(res) THEN <<>>
    ELSE (IF cl[k] = ul THEN SetToSeq(res[k]) ELSE <<>>)
         \o WorkFrom(res, cl, ul, k + 1)

Work(i) ==
    IF i >= Len(cluster_labels_unique) THEN <<>>
    ELSE WorkFrom(flatten_ana_res, cluster_labels, cluster_labels_unique[i + 1], 1)

\* the indices a Python slice start:stop takes from an axis of length len
PySlice(len, start, stop) ==
    LET norm(x) == IF x < 0 THEN Max(len + x, 0) ELSE Min(x, len)
    IN {k \in 0..(len - 1) : norm(start) <= k /\ k < norm(stop)}

\* int(x): truncation towards zero
TruncInt(r) ==
    IF r.num >= 0 THEN r.num \div r.den ELSE -((-r.num) \div r.den)

\* group_mask[minr:maxr, lo:hi]
TargetPixels(pat, reg, lo, hi) ==
    PySlice(pat.h, reg.minr, reg.maxr) \X PySlice(pat.w, lo, hi)

\* numpy computes target | image and stores it into target: along each axis
\* the image must have the target's length, or length 1
BroadcastOK(t, m) == t = m \/ m = 1

\* whether group_mask[minr:maxr, lo:hi] | region.image[:, ilo:ihi] can be
\* stored; the image has maxr-minr rows and maxc-minc columns
ComposeOK(pat, reg, lo, hi, ilo, ihi) ==
    /\ BroadcastOK(Cardinality(PySlice(pat.h, reg.minr, reg.maxr)),
                   reg.maxr - reg.minr)
    /\ BroadcastOK(Cardinality(PySlice(pat.w, lo, hi)),
                   Cardinality(PySlice(reg.maxc - reg.minc, ilo, ihi)))

\* lines 1136-1143: the initial guess [hs[k], xs[k], width] per peak, offset 0;
\* the heights are not read again and stay symbolic
Guess(reg, ps) ==
    [peaks |-> [k \in 1..Len(ps) |->
                   [A |-> <<"hs", k - 1>>,
                    x0 |-> Rat(reg.minc + ps[k], 1),
                    sig |-> Rat(ps[Len(ps)] - ps[1], 2 * Len(ps))]],
     offset |-> 0]

\* what curve_fit may return: every center moved by d, every width sg
FitResults(guess) ==
    {[peaks |-> [k \in 1..Len(guess.peaks) |->
                    [A |-> "fitted",
                     x0 |-> RatAdd(guess.peaks[k].x0, Rat(d, 1)),
                     sig |-> Rat(sg, 1)]],
      offset |-> "fitted"] :
        d \in (-MaxFitShift)..MaxFitShift, sg \in (-MaxFitSigma)..MaxFitSigma}

\* lines 1130-1131: the index of peak p within its region
LocalPid(p) ==
    LET rid == flatten_regions[p + 1]
        p_neighbor == {flatten_pids[q] :
                          q \in {x \in 1..Len(flatten_pids) : flatten_regions[x] = rid}}
    IN flatten_pids[p + 1] - (CHOOSE m \in p_neighbor : \A x \in p_neighbor : m <= x)

\* lines 1161-1162
WindowLo(reg, par) == Max(reg.minc, TruncInt(RatSub(par.x0, RatAbs(par.sig))))

WindowHi(reg, par) == Min(reg.maxc, TruncInt(RatAdd(par.x0, RatAbs(par.sig))))

\* np.sum(group_mask * self.rd.pattern)
MaskIntensity(pat, mask) ==
    LET pix == SetToSeq({(px[1] * pat.w + px[2]) : px \in mask})
    IN SumSeq([k \in 1..Len(pix) |-> pat.pix[<<pix[k] \div pat.w, pix[k] % pat.w>>]])

\* x / y as numpy divides: a zero denominator is kept, 0/0 is nan
Quotient(x, y) == IF y = 0 THEN Rat(x, 0) ELSE RatNorm(RatDiv(x, y))

GroupPercentByMax(gint) ==
    LET total == CHOOSE m \in Range(gint) : \A x \in Range(gint) : m >= x
    IN [k \in 1..Len(gint) |-> Quotient(gint[k], total)]

\* group_intensity / np.sum(group_intensity), line 1170
GroupPercent(gint) ==
    LET total == SumSeq(gint)
    IN [k \in 1..Len(gint) |-> Quotient(gint[k], total)]

\* the images the pattern is drawn from: every pixel has the value v
PixelPatterns(h, w) ==
    {[px \in (0..(h - 1)) \X (0..(w - 1)) |-> v] : v \in 0..MaxPix}

\* ---- the state get_group_intensity starts from
IntensityInit ==
    /\ \E w \in (MaskW - 1)..MaskW :
         \E px \in PixelPatterns(PatH, w) :
            pattern = [h |-> PatH, w |-> w, pix |-> px]
    /\ regions \in RegionLists(PatH, MaskW)
    /\ collapses_peaks \in
         {cps \in [1..Len(regions) -> PeakLists(MaskW)] :
             /\ \A r \in 1..Len(regions) :
                   \A k \in 1..Len(cps[r]) :
                       cps[r][k] < regions[r].maxc - regions[r].minc
             /\ SumSeq([r \in 1..Len(regions) |-> Len(cps[r])]) <= MaxTotalPeaks}
    /\ LET u == Unsorted(regions, collapses_peaks)
       IN flatten_pids \in ArgSorts([k \in 1..Len(u) |-> Rat(u[k].w, 1)],
                                    0..(Len(u) - 1))
    /\ flatten_regions = FlattenRegions(regions, collapses_peaks, flatten_pids)
    /\ flatten_cis = get_center_peak_idxs(
                         FlattenWs(regions, collapses_peaks, flatten_pids),
                         pattern.w \div 2, CenterTol)
    /\ flatten_ana_res \in
         SeqsUpTo({f \in SUBSET (0..(Len(flatten_pids) - 1)) : Cardinality(f) >= 2},
                  MaxIntensityFamilies)
    /\ cluster_labels \in [1..Len(flatten_ana_res) -> 0..MaxLabel]
    /\ cluster_labels_unique = np_unique(cluster_labels)
    /\ gi_i = 0
    /\ gi_work = Work(0)
    /\ group_mask = {}
    /\ group_intensity = [k \in 1..Len(cluster_labels_unique) |-> 0]
    /\ group_percent = [bound |-> FALSE, val |-> <<>>]
    /\ gauss_fit = <<>>
    /\ warnings = <<>>
    /\ fit_outcome = "none"
    /\ fit_calls = [r \in 1..Len(regions) |-> 0]
    /\ fit_failed = {}
    /\ label_masks = <<>>
    /\ gi_error = "none"

IntensityIdle ==
    /\ pattern = [h |-> 0, w |-> 0, pix |-> <<>>]
    /\ regions = <<>>
    /\ collapses_peaks = <<>>
    /\ flatten_pids = <<>>
    /\ flatten_regions = <<>>
    /\ flatten_cis = {}
    /\ flatten_ana_res = <<>>
    /\ cluster_labels = <<>>
    /\ cluster_labels_unique = <<>>
    /\ gi_i = 0
    /\ gi_work = <<>>
    /\ group_mask = {}
    /\ group_intensity = <<>>
    /\ group_percent = [bound |-> FALSE, val |-> <<>>]
    /\ gauss_fit = <<>>
    /\ warnings = <<>>
    /\ fit_outcome = "none"
    /\ fit_calls = <<>>
    /\ fit_failed = {}
    /\ label_masks = <<>>
    /\ gi_error = "none"

\* ---- the peak the innermost loop is at
NLabels == Len(cluster_labels_unique)

CurP == Head(gi_work)

CurRid == flatten_regions[CurP + 1]

CurRegion == regions[CurRid + 1]

CurPeaks == collapses_peaks[CurRid + 1]

AtPeak == pc = "gi_loop" /\ gi_work # <<>>

otherVars == <<groupVars, clusterVars, engineVars, restVars>>

\* lines 1160-1167 with the parameters popt and the warnings w so far: the
\* region's pixels inside the window of the peak are OR-ed into group_mask;
\* a failure is warned about and the peak passed over
Carve(popt, w) ==
    LET par == popt.peaks[LocalPid(CurP) + 1]
        lo == WindowLo(CurRegion, par)
        hi == WindowHi(CurRegion, par)
    IN IF ComposeOK(pattern, CurRegion, lo, hi,
                    lo - CurRegion.minc, hi - CurRegion.minc)
       THEN /\ group_mask' = group_mask \cup TargetPixels(pattern, CurRegion, lo, hi)
            /\ warnings' = w
       ELSE /\ group_mask' = group_mask
            /\ warnings' = Append(w, <<"Fail to register to the mask", CurRid>>)

\* line 1119: a center peak is passed over
GI_SkipCenter ==
    /\ AtPeak
    /\ CurP \in flatten_cis
    /\ gi_work' = Tail(gi_work)
    /\ UNCHANGED <<pc, intensityIn, gi_i, group_mask, group_intensity, group_percent,
                   gauss_fit, warnings, fit_outcome, fit_calls, fit_failed,
                   label_masks, gi_error, otherVars>>

\* lines 1125-1127: the region has one peak; its whole image is OR-ed in,
\* outside any try
GI_SinglePeak ==
    /\ AtPeak
    /\ CurP \notin flatten_cis
    /\ Len(CurPeaks) = 1
    /\ IF ComposeOK(pattern, CurRegion, CurRegion.minc, CurRegion.maxc,
                    0, CurRegion.maxc - CurRegion.minc)
       THEN /\ group_mask' = group_mask \cup
                    TargetPixels(pattern, CurRegion, CurRegion.minc, CurRegion.maxc)
            /\ gi_work' = Tail(gi_work)
            /\ UNCHANGED <<pc, gi_error>>
       ELSE /\ pc' = "gi_raised"
            /\ gi_error' = "mask composition"
            /\ UNCHANGED <<group_mask, gi_work>>
    /\ UNCHANGED <<intensityIn, gi_i, group_intensity, group_percent, gauss_fit,
                   warnings, fit_outcome, fit_calls, fit_failed, label_masks,
                   otherVars>>

\* lines 1156-1167: the region's fit is in the cache
GI_MultiCached ==
    /\ AtPeak
    /\ CurP \notin flatten_cis
    /\ Len(CurPeaks) # 1
    /\ CurRid \in DOMAIN gauss_fit
    /\ Carve(gauss_fit[CurRid], warnings)
    /\ gi_work' = Tail(gi_work)
    /\ UNCHANGED <<pc, gi_error, intensityIn, gi_i, group_intensity, group_percent, gauss_fit,
                   fit_outcome, fit_calls, fit_failed, label_masks, otherVars>>

\* lines 1133-1145: the region is not in the cache; curve_fit is called, with
\* no time limit.  The fitter is a black box: it returns, raises, or does
\* not come back.
GI_FitCall ==
    /\ AtPeak
    /\ CurP \notin flatten_cis
    /\ Len(CurPeaks) # 1
    /\ CurRid \notin DOMAIN gauss_fit
    /\ pc' = "gi_fitting"
    /\ fit_outcome' \in {"returns", "raises", "hangs"}
    /\ fit_calls' = [fit_calls EXCEPT ![CurRid + 1] = @ + 1]
    /\ UNCHANGED <<intensityIn, gi_i, gi_work, group_mask, group_intensity,
                   group_percent, gauss_fit, warnings, fit_failed, label_masks,
                   gi_error, otherVars>>

\* lines 1145-1146, then 1160-1167
GI_FitReturn ==
    /\ pc = "gi_fitting"
    /\ fit_outcome = "returns"
    /\ \E popt \in FitResults(Guess(CurRegion, CurPeaks)) :
         /\ gauss_fit' = (CurRid :> popt) @@ gauss_fit
         /\ Carve(popt, warnings)
    /\ pc' = "gi_loop"
    /\ gi_work' = Tail(gi_work)
    /\ fit_outcome' = "none"
    /\ UNCHANGED <<gi_error, intensityIn, gi_i, group_intensity, group_percent, fit_calls,
                   fit_failed, label_masks, otherVars>>

\* the fallback of lines 1147-1155: warn and keep the guess
Fallback(guess, w, rid) ==
    [popt |-> guess,
     warnings |-> Append(w, <<"Gaussian Fail, split regions equally", rid>>)]

GI_FitRaiseUncached ==
    /\ pc = "gi_fitting"
    /\ fit_outcome = "raises"
    /\ LET fb == Fallback(Guess(CurRegion, CurPeaks), warnings, CurRid)
       IN Carve(fb.popt, fb.warnings)
    /\ fit_failed' = fit_failed \cup {CurRid}
    /\ pc' = "gi_loop"
    /\ gi_work' = Tail(gi_work)
    /\ fit_outcome' = "none"
    /\ UNCHANGED <<intensityIn, gi_i, group_intensity, group_percent, fit_calls,
                   gauss_fit, label_masks, gi_error, otherVars>>

\* lines 1147-1155, then 1160-1167
GI_FitRaise ==
    /\ pc = "gi_fitting"
    /\ fit_outcome = "raises"
    /\ LET fb == Fallback(Guess(CurRegion, CurPeaks), warnings, CurRid)
       IN /\ gauss_fit' = (CurRid :> fb.popt) @@ gauss_fit
          /\ Carve(fb.popt, fb.warnings)
    /\ fit_failed' = fit_failed \cup {CurRid}
    /\ pc' = "gi_loop"
    /\ gi_work' = Tail(gi_work)
    /\ fit_outcome' = "none"
    /\ UNCHANGED <<intensityIn, gi_i, group_intensity, group_percent, fit_calls,
                   label_masks, gi_error, otherVars>>

\* lines 1169-1173: the label's peaks are done
GI_LabelDone ==
    /\ pc = "gi_loop"
    /\ gi_i < NLabels
    /\ gi_work = <<>>
    /\ LET gint == [group_intensity EXCEPT
                       ![gi_i + 1] = MaskIntensity(pattern, group_mask)]
       IN /\ group_intensity' = gint
          /\ group_percent' = [bound |-> TRUE, val |-> GroupPercent(gint)]
    /\ label_masks' = Append(label_masks, group_mask)
    /\ gi_i' = gi_i + 1
    /\ gi_work' = Work(gi_i + 1)
    /\ group_mask' = {}
    /\ UNCHANGED <<pc, intensityIn, gauss_fit, warnings, fit_outcome, fit_calls,
                   fit_failed, gi_error, otherVars>>

\* line 1175: group_percent is bound only inside the label loop
GI_Return ==
    /\ pc = "gi_loop"
    /\ gi_i = NLabels
    /\ IF ~group_percent.bound
       THEN pc' = "gi_raised" /\ gi_error' = "UnboundLocalError"
       ELSE pc' = "gi_done" /\ gi_error' = gi_error
    /\ UNCHANGED <<intensityIn, gi_i, gi_work, group_mask, group_intensity,
                   group_percent, gauss_fit, warnings, fit_outcome, fit_calls,
                   fit_failed, label_masks, otherVars>>

----------------------------------------------------------------------------
(* Spectrum: src/rhana/spectrum.py lines 160-239.  The intensities of one  *)
(* spectrum are exact fractions over one denominator, spec = [n, d] for    *)
(* the values n[i]/d, kept in lowest terms; ws is a sequence of integers.  *)

MaxSpecPts == 4
MaxSpecVal == 2
MaxOps == 2
MaxClip == 1
MaxN == 2
NormCap == 10000
GuardInv == 100000

MinOf(sq) == CHOOSE m \in Range(sq) : \A x \in Range(sq) : m <= x

MaxOf(sq) == CHOOSE m \in Range(sq) : \A x \in Range(sq) : m >= x

RECURSIVE GCDSeq(_, _)
GCDSeq(sq, g) == IF sq = <<>> THEN g ELSE GCDSeq(Tail(sq), GCD(g, Abs(Head(sq))))

\* the values ns[i]/d, d > 0, in lowest terms
Canon(ns, d) ==
    LET g == GCDSeq(ns, d)
    IN [n |-> [i \in 1..Len(ns) |-> ns[i] \div g], d |-> d \div g]

normalizationOffsetKept(spec) ==
    Canon([i \in 1..Len(spec.n) |-> spec.n[i] * GuardInv],
          (MaxOf(spec.n) - MinOf(spec.n)) * GuardInv + spec.d)

\* lines 179-182: (spec - _min) / (_max - _min + 1e-5), 1e-5 = 1/GuardInv
normalization(spec) ==
    LET lo == MinOf(spec.n)
        hi == MaxOf(spec.n)
    IN Canon([i \in 1..Len(spec.n) |-> (spec.n[i] - lo) * GuardInv],
             (hi - lo) * GuardInv + spec.d)

\* np.clip(self.spec, clip_min, clip_max) = minimum(maximum(x, min), max)
clip(spec, clip_min, clip_max) ==
    Canon([i \in 1..Len(spec.n) |->
              Min(Max(spec.n[i], clip_min * spec.d), clip_max * spec.d)],
          spec.d)

\* gaussian_filter1d returns an array of the shape of its input whose entries
\* are weighted means of the input's entries: a constant spectrum is returned
\* as it is, otherwise every entry is taken from the ends of the value range
SmoothResults(spec) ==
    LET lo == MinOf(spec.n)
        hi == MaxOf(spec.n)
    IN IF lo = hi THEN {spec}
       ELSE {Canon(ns, spec.d) : ns \in [1..Len(spec.n) -> {lo, hi}]}

\* lines 202-207: the positions (1-based) of the samples the baseline is
\* fitted through: ws[0:n] and ws[-n:], or ws[0] and ws[-1]
BaselineSamples(len, n) ==
    IF n > 1
    THEN [k \in 1..Min(n, len) |-> k] \o [k \in 1..Min(n, len) |-> len - Min(n, len) + k]
    ELSE <<1, len>>

\* lines 202-215: least squares line through the baseline samples, subtracted
\* from the whole spectrum; np.linalg.inv raises LinAlgError when X.T@X is
\* singular
remove_background(spec, ws, n) ==
    LET ix == BaselineSamples(Len(ws), n)
        cnt == Len(ix)
        sx == SumSeq([k \in 1..cnt |-> ws[ix[k]]])
        sxx == SumSeq([k \in 1..cnt |-> ws[ix[k]] * ws[ix[k]]])
        sy == SumSeq([k \in 1..cnt |-> spec.n[ix[k]]])
        sxy == SumSeq([k \in 1..cnt |-> ws[ix[k]] * spec.n[ix[k]]])
        det == cnt * sxx - sx * sx
        slope == cnt * sxy - sx * sy
        icpt == sxx * sy - sx * sxy
    IN IF det = 0 THEN [raised |-> "LinAlgError", spec |-> spec]
       ELSE [raised |-> "none",
             spec |-> Canon([i \in 1..Len(ws) |->
                                spec.n[i] * det - (slope * ws[i] + icpt)],
                            spec.d * det)]

\* the default trunc of filling_flat, 0.99
TruncDefault == Rat(99, 100)

\* smask = spec <= trunc (positions, 1-based)
Unsaturated(spec, trunc) ==
    {i \in 1..Len(spec.n) : spec.n[i] * trunc.den <= trunc.num * spec.d}

ParabolaAtKept(spec, ws, kept) ==
    Canon([k \in 1..Cardinality(kept) |-> spec.n[SetToSeq(kept)[k]]], spec.d)

\* interp1d(ws[smask], spec[smask], kind="quadratic") through three samples
\* is the parabola through them, here evaluated at every ws[i]
Parabola(spec, ws, kept) ==
    LET ks == SetToSeq(kept)
        dk == [k \in 1..3 |->
                  (ws[ks[k]] - ws[ks[(k % 3) + 1]])
                  * (ws[ks[k]] - ws[ks[((k + 1) % 3) + 1]])]
        m == dk[1] * dk[2] * dk[3]
        nk(i, k) == (ws[i] - ws[ks[(k % 3) + 1]]) * (ws[i] - ws[ks[((k + 1) % 3) + 1]])
        val(i) == SumSeq([k \in 1..3 |-> spec.n[ks[k]] * nk(i, k) * (m \div dk[k])])
        sgn == IF m < 0 THEN -1 ELSE 1
    IN Canon([i \in 1..Len(ws) |-> sgn * val(i)], sgn * m * spec.d)

\* lines 229-233: the samples above trunc are replaced by the interpolation of
\* the others; f(ws) raises ValueError when a ws lies outside the kept range
filling_flat(spec, ws, trunc) ==
    LET kept == Unsaturated(spec, trunc)
    IN IF Cardinality(kept) < Len(spec.n) /\ Cardinality(kept) > 2
       THEN IF 1 \notin kept \/ Len(ws) \notin kept
            THEN [raised |-> "ValueError", spec |-> spec]
            ELSE [raised |-> "none", spec |-> Parabola(spec, ws, kept)]
       ELSE [raised |-> "none", spec |-> spec]

\* lines 165-171: the result is stored in the receiver, or in a new Spectrum
_update_spectrum(heap, self, spec, ws, inplace) ==
    IF inplace
    THEN [heap |-> [heap EXCEPT ![self] = [spec |-> spec, ws |-> ws]], ret |-> self]
    ELSE [heap |-> Append(heap, [spec |-> spec, ws |-> ws]), ret |-> Len(heap) + 1]

NoCall ==
    [op |-> "none", inplace |-> FALSE, recv |-> 0, ret |-> 0,
     before |-> [spec |-> [n |-> <<>>, d |-> 1], ws |-> <<>>], raised |-> "none"]

\* a Spectrum over ws = arange(w0, w0 + len) with whole intensities
SpectrumInit ==
    /\ \E len \in 1..MaxSpecPts, w0 \in 0..MaxWsStart :
         \E ns \in [1..len -> 0..MaxSpecVal] :
            /\ sp_heap = <<[spec |-> [n |-> ns, d |-> 1],
                            ws |-> [i \in 1..len |-> w0 + i - 1]]>>
            /\ sp_ws0 = [i \in 1..len |-> w0 + i - 1]
    /\ sp_cur = 1
    /\ sp_last = NoCall
    /\ sp_steps = 0

SpectrumIdle ==
    /\ sp_heap = <<>>
    /\ sp_cur = 0
    /\ sp_last = NoCall
    /\ sp_steps = 0
    /\ sp_ws0 = <<>>


\* the call op(inplace=...) on sp_cur returned r.ret; the next operation is
\* called on what it returned
Returned(op, inplace, r) ==
    /\ sp_heap' = r.heap
    /\ sp_cur' = r.ret
    /\ sp_last' = [op |-> op, inplace |-> inplace, recv |-> sp_cur, ret |-> r.ret,
                   before |-> sp_heap[sp_cur], raised |-> "none"]
    /\ sp_steps' = sp_steps + 1
    /\ UNCHANGED <<pc, sp_ws0, spectrumOthers>>

\* the call raised exc before anything was stored
Raised(op, inplace, exc) ==
    /\ sp_last' = [op |-> op, inplace |-> inplace, recv |-> sp_cur, ret |-> 0,
                   before |-> sp_heap[sp_cur], raised |-> exc]
    /\ sp_steps' = sp_steps + 1
    /\ UNCHANGED <<pc, sp_heap, sp_cur, sp_ws0, spectrumOthers>>

CanCall == pc = "mutate" /\ sp_steps < MaxOps

\* lines 173-184
SP_Normalization ==
    /\ CanCall
    /\ MaxOf(sp_heap[sp_cur].spec.n) - MinOf(sp_heap[sp_cur].spec.n) <= NormCap
    /\ \E inplace \in BOOLEAN :
         Returned("normalization", inplace,
                  _update_spectrum(sp_heap, sp_cur,
                                   normalization(sp_heap[sp_cur].spec),
                                   sp_heap[sp_cur].ws, inplace))

\* lines 186-188: inplace is not handed on, _update_spectrum takes its default
SP_Smooth ==
    /\ CanCall
    /\ \E inplace \in BOOLEAN :
         \E nspec \in SmoothResults(sp_heap[sp_cur].spec) :
            Returned("smooth", inplace,
                     _update_spectrum(sp_heap, sp_cur, nspec,
                                      sp_heap[sp_cur].ws, TRUE))

\* lines 190-191
SP_Clip ==
    /\ CanCall
    /\ \E inplace \in BOOLEAN, clip_min \in 0..MaxClip, clip_max \in 0..MaxClip :
         Returned("clip", inplace,
                  _update_spectrum(sp_heap, sp_cur,
                                   clip(sp_heap[sp_cur].spec, clip_min, clip_max),
                                   sp_heap[sp_cur].ws, inplace))

\* lines 193-215
SP_RemoveBackground ==
    /\ CanCall
    /\ \E inplace \in BOOLEAN, n \in 1..MaxN :
         LET r == remove_background(sp_heap[sp_cur].spec, sp_heap[sp_cur].ws, n)
         IN IF r.raised # "none"
            THEN Raised("remove_background", inplace, r.raised)
            ELSE Returned("remove_background", inplace,
                          _update_spectrum(sp_heap, sp_cur, r.spec,
                                           sp_heap[sp_cur].ws, inplace))

\* lines 218-239; the interpolation is followed for three kept samples
SP_FillingFlat ==
    /\ CanCall
    /\ Cardinality(Unsaturated(sp_heap[sp_cur].spec, TruncDefault)) <= 3
         \/ Unsaturated(sp_heap[sp_cur].spec, TruncDefault) = 1..Len(sp_heap[sp_cur].ws)
    /\ \E inplace \in BOOLEAN :
         LET self == sp_heap[sp_cur]
             r == filling_flat(self.spec, self.ws, TruncDefault)
         IN IF r.raised # "none"
            THEN Raised("filling_flat", inplace, r.raised)
            ELSE Returned("filling_flat", inplace,
                          IF inplace
                          THEN [heap |-> [sp_heap EXCEPT ![sp_cur].spec = r.spec],
                                ret |-> sp_cur]
                          ELSE [heap |-> Append(sp_heap, [spec |-> r.spec,
                                                          ws |-> self.ws]),
                                ret |-> Len(sp_heap) + 1])

----------------------------------------------------------------------------
(* RheedMask.clean_collapse: src/rhana/pattern.py lines 734-754, on the    *)
(* Spectrum objects of src/rhana/spectrum.py                               *)

MaxCollapses == 2
MaxCollapsePts == 3
MaxCollapseVal == 1

\* the methods of Spectrum and CollapseSpectrum (spectrum.py 160-362)
SpectrumMethods ==
    {"_update_spectrum", "normalization", "smooth", "clip", "remove_background",
     "filling_flat", "fit_spectrum_peaks", "get_peaks_distance",
     "analyze_peaks_distance_cent", "plot_spectrum", "get_peaks_group",
     "from_rheed_horizontal", "from_rheed_vertical"}

\* the spectra of the regions: ws = arange(len), whole intensities
CollapseSpectra ==
    UNION {{[spec |-> [n |-> ns, d |-> 1], ws |-> [i \in 1..len |-> i - 1]] :
               ns \in [1..len -> 0..MaxCollapseVal]} : len \in 1..MaxCollapsePts}

\* lines 745-753: the runs of the loop from spectrum k on.  A LinAlgError of
\* remove_background is caught and warned about; cs.normalize() is looked up
\* on the object and raises AttributeError when there is no such method
RECURSIVE CleanFrom(_, _, _)
CleanFrom(run, k, flags) ==
    IF k > Len(run.collapses) THEN {run}
    ELSE LET cs == run.collapses[k]
             rb == remove_background(cs.spec, cs.ws, 2)
             r1 == IF ~flags.rm_bg THEN run
                   ELSE IF rb.raised = "LinAlgError"
                        THEN [run EXCEPT !.warnings = Append(@, k)]
                        ELSE [run EXCEPT !.collapses[k].spec = rb.spec,
                                         !.log = Append(@, <<k, "remove_background">>)]
             r2 == IF ~flags.scale THEN r1
                   ELSE IF "normalize" \in SpectrumMethods
                        THEN [r1 EXCEPT !.collapses[k].spec = normalization(@),
                                        !.log = Append(@, <<k, "normalize">>)]
                        ELSE [r1 EXCEPT !.raised = "AttributeError"]
         IN IF r2.raised # "none" THEN {r2}
            ELSE IF flags.smooth
                 THEN UNION {CleanFrom([r2 EXCEPT !.collapses[k].spec = ns,
                                                  !.log = Append(@, <<k, "smooth">>)],
                                       k + 1, flags) :
                                ns \in SmoothResults(r2.collapses[k].spec)}
                 ELSE CleanFrom(r2, k + 1, flags)

CleanInit ==
    /\ cc_collapses \in UNION {[1..len -> CollapseSpectra] : len \in 0..MaxCollapses}
    /\ cc_before = cc_collapses
    /\ cc_flags \in [smooth : BOOLEAN, rm_bg : BOOLEAN, scale : BOOLEAN]
    /\ cc_warnings = <<>>
    /\ cc_log = <<>>
    /\ cc_raised = "none"

CleanIdle ==
    /\ cc_collapses = <<>>
    /\ cc_before = <<>>
    /\ cc_flags = [smooth |-> FALSE, rm_bg |-> FALSE, scale |-> FALSE]
    /\ cc_warnings = <<>>
    /\ cc_log = <<>>
    /\ cc_raised = "none"

\* lines 734-754: clean_collapse(smooth, rm_bg, scale) returns or raises
clean_collapse ==
    /\ pc = "clean"
    /\ \E run \in CleanFrom([collapses |-> cc_collapses, warnings |-> <<>>,
                             log |-> <<>>, raised |-> "none"], 1, cc_flags) :
          /\ cc_collapses' = run.collapses
          /\ cc_warnings' = run.warnings
          /\ cc_log' = run.log
          /\ cc_raised' = run.raised
    /\ pc' = "cleaned"
    /\ UNCHANGED <<cc_before, cc_flags, cleanOthers>>

----------------------------------------------------------------------------
(* SpectrumModel.from_peaks: src/rhana/spectrum/model.py lines 129-298.    *)
(* A model is [class, prefix, degree]; the parameters are left out.        *)

MaxModelPeaks == 2
MaxPolyN == 7

\* lines 117-121
_model_prefix ==
    [m \in {"GaussianModel", "LorentzianModel", "VoigtModel"} |->
        CASE m = "GaussianModel" -> "G"
          [] m = "LorentzianModel" -> "L"
          [] m = "VoigtModel" -> "V"]

\* names config.type is drawn from; the last has no entry in _model_prefix
ModelTypes == {"GaussianModel", "LorentzianModel", "VoigtModel", "StepModel"}

\* lines 230-245: the model of peak i (0-based)
PeakModel(type, i) ==
    [class |-> type, prefix |-> <<_model_prefix[type], i>>, degree |-> -1]

\* lines 272-275
BackgroundModel(config) ==
    IF config.use_cheby_poly
    THEN [class |-> "PolynomialModel", prefix |-> <<>>, degree |-> config.poly_n]
    ELSE [class |-> "ChebyshevPolynomialModel", prefix |-> <<>>,
          degree |-> config.poly_n]

\* line 286
VoigtBackground == [class |-> "VoigtModel", prefix |-> <<"Lb", 0>>, degree |-> -1]

ModelInit ==
    /\ fm_config \in [type : ModelTypes, use_cheby_poly : BOOLEAN,
                      poly_n : 0..MaxPolyN, poly_zero_init : BOOLEAN,
                      add_vogit_bg : BOOLEAN]
    /\ fm_npeaks \in 0..MaxModelPeaks
    /\ fm_by \in {"guess", "other"}
    /\ fm_sub_models = <<>>
    /\ fm_raised = "none"

ModelIdle ==
    /\ fm_config = [type |-> "GaussianModel", use_cheby_poly |-> FALSE,
                    poly_n |-> 0, poly_zero_init |-> FALSE, add_vogit_bg |-> FALSE]
    /\ fm_npeaks = 0
    /\ fm_by = "guess"
    /\ fm_sub_models = <<>>
    /\ fm_raised = "none"

\* lines 229-298: one model per peak, the background, the Voigt background
from_peaks ==
    /\ pc = "from_peaks"
    /\ IF fm_npeaks > 0 /\ fm_config.type \notin DOMAIN _model_prefix
       THEN /\ fm_raised' = "NotImplementedError"
            /\ UNCHANGED fm_sub_models
       ELSE /\ fm_sub_models' =
                  [i \in 1..fm_npeaks |-> PeakModel(fm_config.type, i - 1)]
                  \o <<BackgroundModel(fm_config)>>
                  \o (IF fm_config.add_vogit_bg THEN <<VoigtBackground>> ELSE <<>>)
            /\ UNCHANGED fm_raised
    /\ pc' = "built"
    /\ UNCHANGED <<fm_config, fm_npeaks, fm_by, modelOthers>>

----------------------------------------------------------------------------
(* Rheed.get_direct_beam and get_specular_spot: src/rhana/pattern.py lines *)
(* 400-451.  A blob is [x, y, r]; indices are Python's, from 0.            *)

MaxBlobs == 3
MaxBlobX == 2
MaxBlobY == 1
MaxBlobR == 2

\* np.inf: above every x
TopInf == MaxBlobX + MaxBlobR + 1

\* lines 414-417: the loop of get_top_blob from blob k (1-based) on
RECURSIVE TopBlobFrom(_, _, _, _)
TopBlobFrom(blobs, rmin, k, acc) ==
    IF k > Len(blobs) THEN acc
    ELSE TopBlobFrom(blobs, rmin, k + 1,
                     IF blobs[k].x < acc.top /\ blobs[k].r >= rmin
                     THEN [tb |-> <<blobs[k].x, blobs[k].y>>, top |-> blobs[k].x]
                     ELSE acc)

\* lines 411-418: i is the loop variable when the loop has ended, and is not
\* bound when there was no blob
get_top_blob(blobs, rmin) ==
    IF blobs = <<>>
    THEN [raised |-> "UnboundLocalError", tb |-> <<>>, i |-> -1]
    ELSE [raised |-> "none",
          tb |-> TopBlobFrom(blobs, rmin, 1, [tb |-> <<>>, top |-> TopInf]).tb,
          i |-> Len(blobs) - 1]

\* lines 444-449: the loop of get_specular_spot from blob k (1-based) on
RECURSIVE SpecularFrom(_, _, _, _, _)
SpecularFrom(blobs, rmin, db, k, acc) ==
    IF k > Len(blobs) THEN acc
    ELSE SpecularFrom(blobs, rmin, db, k + 1,
                      IF blobs[k] = db THEN acc
                      ELSE IF /\ blobs[k].r >= rmin
                              /\ blobs[k].x <= db.x + db.r
                              /\ blobs[k].x >= db.x - db.r
                              /\ acc.top > blobs[k].x
                           THEN [ss |-> <<blobs[k].x, blobs[k].y, blobs[k].r>>,
                                 top |-> blobs[k].x]
                           ELSE acc)

BeamInit ==
    /\ bm_stored \in BOOLEAN
    /\ bm_blobs \in UNION {[1..n -> [x : 0..MaxBlobX, y : 0..MaxBlobY, r : 1..MaxBlobR]] :
                              n \in 0..MaxBlobs}
    /\ bm_stored \/ bm_blobs = <<>>
    /\ bm_rmin \in 1..MaxBlobR
    /\ bm_db = <<>>
    /\ bm_db_i = -1
    /\ bm_ss = <<>>
    /\ bm_ss_i = -1
    /\ bm_raised = "none"

BeamIdle ==
    /\ bm_stored = FALSE
    /\ bm_blobs = <<>>
    /\ bm_rmin = 1
    /\ bm_db = <<>>
    /\ bm_db_i = -1
    /\ bm_ss = <<>>
    /\ bm_ss_i = -1
    /\ bm_raised = "none"

\* lines 400-424
get_direct_beam ==
    /\ pc = "beam"
    /\ LET r == get_top_blob(bm_blobs, bm_rmin)
       IN IF ~bm_stored
          THEN /\ bm_raised' = "Exception"
               /\ UNCHANGED <<bm_db, bm_db_i>>
          ELSE IF r.raised # "none"
               THEN /\ bm_raised' = r.raised
                    /\ UNCHANGED <<bm_db, bm_db_i>>
               ELSE /\ bm_db' = r.tb
                    /\ bm_db_i' = r.i
                    /\ UNCHANGED bm_raised
    /\ pc' = "beam_done"
    /\ UNCHANGED <<bm_stored, bm_blobs, bm_rmin, bm_ss, bm_ss_i, beamOthers>>

\* lines 426-451, called after get_direct_beam returned
get_specular_spot ==
    /\ pc = "beam_done"
    /\ bm_raised = "none"
    /\ \E rmin \in 1..MaxBlobR :
         LET db == bm_blobs[bm_db_i + 1]
         IN /\ bm_ss' = SpecularFrom(bm_blobs, rmin, db, 1,
                                     [ss |-> <<>>, top |-> TopInf]).ss
            /\ bm_ss_i' = Len(bm_blobs) - 1
    /\ pc' = "spot_done"
    /\ UNCHANGED <<bm_stored, bm_blobs, bm_rmin, bm_db, bm_db_i, bm_raised, beamOthers>>

----------------------------------------------------------------------------
(* get_all_nbr_idxs: src/rhana/spectrum.py lines 71-95, the generator run  *)
(* one pass of its while loop at a time.                                   *)

MaxNbrIdx == 6

\* lines 80-83; the callers pass get_center_peak_idx's result, -1 included
NbrInit ==
    /\ nb_maxidx \in 0..MaxNbrIdx
    /\ nb_center_i \in -1..nb_maxidx
    /\ nb_level = 0
    /\ nb_endleft = FALSE
    /\ nb_endright = FALSE
    /\ nb_out = <<>>

NbrIdle ==
    /\ nb_maxidx = 0
    /\ nb_center_i = 0
    /\ nb_level = 0
    /\ nb_endleft = FALSE
    /\ nb_endright = FALSE
    /\ nb_out = <<>>

NbrPassRightFirst ==
    /\ pc = "nbr"
    /\ ~(nb_endleft /\ nb_endright)
    /\ LET lv == nb_level + 1
           left == nb_center_i - lv >= 0
           right == nb_center_i + lv <= nb_maxidx
       IN /\ nb_level' = lv
          /\ nb_out' = nb_out \o (IF right THEN <<nb_center_i + lv>> ELSE <<>>)
                              \o (IF left THEN <<nb_center_i - lv>> ELSE <<>>)
          /\ nb_endleft' = (nb_endleft \/ ~left)
          /\ nb_endright' = (nb_endright \/ ~right)
    /\ UNCHANGED <<pc, nb_center_i, nb_maxidx, nbrOthers>>

\* lines 85-95: one pass of the while loop
NbrPass ==
    /\ pc = "nbr"
    /\ ~(nb_endleft /\ nb_endright)
    /\ LET lv == nb_level + 1
           left == nb_center_i - lv >= 0
           right == nb_center_i + lv <= nb_maxidx
       IN /\ nb_level' = lv
          /\ nb_out' = nb_out \o (IF left THEN <<nb_center_i - lv>> ELSE <<>>)
                              \o (IF right THEN <<nb_center_i + lv>> ELSE <<>>)
          /\ nb_endleft' = (nb_endleft \/ ~left)
          /\ nb_endright' = (nb_endright \/ ~right)
    /\ UNCHANGED <<pc, nb_center_i, nb_maxidx, nbrOthers>>

\* line 85: the loop condition fails and the generator is exhausted
NbrStop ==
    /\ pc = "nbr"
    /\ nb_endleft /\ nb_endright
    /\ pc' = "nbr_done"
    /\ UNCHANGED <<nbrVars, nbrOthers>>

----------------------------------------------------------------------------
(* create_grid: src/rhana/spectrum.py lines 54-58, on whole numbers        *)

MaxGridStart == 1
MaxGridEnd == 6
MaxGridDist == 3

GridInit ==
    /\ gr_start \in 0..MaxGridStart
    /\ gr_end \in gr_start..MaxGridEnd
    /\ gr_center \in 0..MaxGridEnd
    /\ gr_dist \in 1..MaxGridDist
    /\ gr_grid = <<>>

GridIdle ==
    /\ gr_start = 0
    /\ gr_end = 0
    /\ gr_center = 0
    /\ gr_dist = 1
    /\ gr_grid = <<>>

\* a call create_grid(start, end, center, dist)
CreateGrid ==
    /\ pc = "grid"
    /\ gr_grid' = create_grid(gr_start, gr_end, gr_center, gr_dist)
    /\ pc' = "grid_done"
    /\ UNCHANGED <<gr_start, gr_end, gr_center, gr_dist, gridOthers>>

----------------------------------------------------------------------------
(* RHEEDMaskDistancePhaser.run_cluster: src/rhana/phaser/distance.py lines *)
(* 53-79, with convert_dist=False; the clustering is fit_predict above.    *)

MaxPatterns == 2
MaxPatternFamilies == 2
MaxPhaserDist == 3
MaxRuns == 2

RECURSIVE Concat(_)
Concat(ss) == IF ss = <<>> THEN <<>> ELSE Head(ss) \o Concat(Tail(ss))

\* lines 54-61: one entry <<<<i, j>>, avg_dist>> per family j of pattern i
_get_all_distance(rdms) ==
    Concat([i \in 1..Len(rdms) |->
               [j \in 1..Len(rdms[i]) |-> <<<<i - 1, j - 1>>, rdms[i][j]>>]])

\* the one of the orderings np.argsort may return that this platform returns
ArgSortOf(means, tie) ==
    LET all == ArgSorts(means, 0..(Len(means) - 1))
        before(a, b) ==
            \/ a = b
            \/ \E k \in 1..Len(a) :
                  /\ \A h \in 1..(k - 1) : a[h] = b[h]
                  /\ IF tie = "low" THEN a[k] < b[k] ELSE a[k] > b[k]
    IN CHOOSE a \in all : \A b \in all : before(a, b)

\* DBSCANDistanceCluster.fit_predict (lines 37-45) on a non-empty array
fit_predict(d, e, ms, tie) ==
    LET lab0 == DBSCAN(d, e, ms)
        means == _mean_dist(d, lab0)
    IN Relabel(Mapper(ArgSortOf(means, tie)), lab0)

DistributeOntoOld(old, labs, all) ==
    [i \in 1..Len(old) |->
        old[i] \o [k \in 1..Cardinality({a \in 1..Len(all) : all[a][1][1] = i - 1}) |->
                      labs[CHOOSE a \in 1..Len(all) : all[a][1] = <<i - 1, k - 1>>]]]

\* lines 71-75: every pattern's list is emptied, then the labels are handed
\* out along all_peak_dists, each to the pattern its entry came from
Distribute(old, labs, all) ==
    [i \in 1..Len(old) |->
        LET mine == SelectSeq([a \in 1..Len(all) |-> a],
                              LAMBDA a : all[a][1][1] = i - 1)
        IN [k \in 1..Len(mine) |-> labs[mine[k]]]]

PhaserInit ==
    /\ ph_rdms \in SeqsUpTo(SeqsUpTo(1..MaxPhaserDist, MaxPatternFamilies), MaxPatterns)
    /\ ph_eps \in 1..MaxEps
    /\ ph_min_samples \in 1..MaxMinSamples
    /\ ph_tie \in {"low", "high"}
    /\ ph_all_peak_dists = <<>>
    /\ ph_labels = <<>>
    /\ ph_cluster_labels = [i \in 1..Len(ph_rdms) |-> <<>>]
    /\ ph_unique = [i \in 1..Len(ph_rdms) |-> <<>>]
    /\ ph_prev = <<>>
    /\ ph_runs = 0
    /\ ph_raised = "none"

PhaserIdle ==
    /\ ph_rdms = <<>>
    /\ ph_eps = 1
    /\ ph_min_samples = 1
    /\ ph_tie = "low"
    /\ ph_all_peak_dists = <<>>
    /\ ph_labels = <<>>
    /\ ph_cluster_labels = <<>>
    /\ ph_unique = <<>>
    /\ ph_prev = <<>>
    /\ ph_runs = 0
    /\ ph_raised = "none"

\* lines 66-79: run_cluster(eps, min_samples).  DBSCAN.fit refuses an array
\* of no samples with ValueError
run_cluster ==
    /\ pc = "phaser"
    /\ ph_runs < MaxRuns
    /\ ph_raised = "none"
    /\ LET all == _get_all_distance(ph_rdms)
           values == [a \in 1..Len(all) |-> all[a][2]]
       IN /\ ph_all_peak_dists' = all
          /\ IF values = <<>>
             THEN /\ ph_raised' = "ValueError"
                  /\ UNCHANGED <<ph_labels, ph_cluster_labels, ph_unique>>
             ELSE LET labs == fit_predict(values, ph_eps, ph_min_samples, ph_tie)
                      cl == Distribute(ph_cluster_labels, labs, all)
                  IN /\ ph_labels' = labs
                     /\ ph_cluster_labels' = cl
                     /\ ph_unique' = [i \in 1..Len(cl) |-> np_unique(cl[i])]
                     /\ UNCHANGED ph_raised
    /\ ph_prev' = ph_cluster_labels
    /\ ph_runs' = ph_runs + 1
    /\ UNCHANGED <<pc, ph_rdms, ph_eps, ph_min_samples, ph_tie, phaserOthers>>

LateIdle == NbrIdle /\ GridIdle /\ PhaserIdle

RestIdle == SpectrumIdle /\ CleanIdle /\ ModelIdle /\ BeamIdle /\ LateIdle

----------------------------------------------------------------------------
(* Specifications: one per component *)

InitGroup ==
    pc = "group" /\ GroupInit /\ ClusterIdle /\ EngineIdle /\ IntensityIdle /\ RestIdle

NextGroup == GetPeaksGroup

SpecGroup == InitGroup /\ [][NextGroup]_vars

InitCluster ==
    pc = "cluster" /\ ClusterInit /\ GroupIdle /\ EngineIdle /\ IntensityIdle /\ RestIdle

NextCluster == FitPredict

SpecCluster == InitCluster /\ [][NextCluster]_vars

InitEngine ==
    pc = "analyze" /\ EngineInit /\ GroupIdle /\ ClusterIdle /\ IntensityIdle /\ RestIdle

NextEngine == SpectrumAnalyze \/ MaskAnalyze

SpecEngine == InitEngine /\ [][NextEngine]_vars

InitIntensity ==
    pc = "gi_loop" /\ IntensityInit /\ GroupIdle /\ ClusterIdle /\ EngineIdle /\ RestIdle

NextIntensity ==
    \/ GI_SkipCenter
    \/ GI_SinglePeak
    \/ GI_MultiCached
    \/ GI_FitCall
    \/ GI_FitReturn
    \/ GI_FitRaise
    \/ GI_LabelDone
    \/ GI_Return

SpecIntensity == InitIntensity /\ [][NextIntensity]_vars

\* get_group_intensity runs on: a step that can be taken is taken
SpecIntensityFair == SpecIntensity /\ WF_vars(NextIntensity)

InitSpectrum ==
    /\ pc = "mutate"
    /\ SpectrumInit
    /\ GroupIdle /\ ClusterIdle /\ EngineIdle /\ IntensityIdle
    /\ CleanIdle /\ ModelIdle /\ BeamIdle /\ LateIdle

NextSpectrum ==
    \/ SP_Normalization
    \/ SP_Smooth
    \/ SP_Clip
    \/ SP_RemoveBackground
    \/ SP_FillingFlat

SpecSpectrum == InitSpectrum /\ [][NextSpectrum]_vars

InitClean ==
    /\ pc = "clean"
    /\ CleanInit
    /\ GroupIdle /\ ClusterIdle /\ EngineIdle /\ IntensityIdle
    /\ SpectrumIdle /\ ModelIdle /\ BeamIdle /\ LateIdle

NextClean == clean_collapse

SpecClean == InitClean /\ [][NextClean]_vars

InitModel ==
    /\ pc = "from_peaks"
    /\ ModelInit
    /\ GroupIdle /\ ClusterIdle /\ EngineIdle /\ IntensityIdle
    /\ SpectrumIdle /\ CleanIdle /\ BeamIdle /\ LateIdle

NextModel == from_peaks

SpecModel == InitModel /\ [][NextModel]_vars

InitBeam ==
    /\ pc = "beam"
    /\ BeamInit
    /\ GroupIdle /\ ClusterIdle /\ EngineIdle /\ IntensityIdle
    /\ SpectrumIdle /\ CleanIdle /\ ModelIdle /\ LateIdle

NextBeam == get_direct_beam \/ get_specular_spot

SpecBeam == InitBeam /\ [][NextBeam]_vars

MidIdle == SpectrumIdle /\ CleanIdle /\ ModelIdle /\ BeamIdle

CoreIdle == GroupIdle /\ ClusterIdle /\ EngineIdle /\ IntensityIdle

InitNbr == pc = "nbr" /\ NbrInit /\ CoreIdle /\ MidIdle /\ GridIdle /\ PhaserIdle

NextNbr == NbrPass \/ NbrStop

SpecNbr == InitNbr /\ [][NextNbr]_vars

InitGrid == pc = "grid" /\ GridInit /\ CoreIdle /\ MidIdle /\ NbrIdle /\ PhaserIdle

NextGrid == CreateGrid

SpecGrid == InitGrid /\ [][NextGrid]_vars

InitPhaser == pc = "phaser" /\ PhaserInit /\ CoreIdle /\ MidIdle /\ NbrIdle /\ GridIdle

NextPhaser == run_cluster

SpecPhaser == InitPhaser /\ [][NextPhaser]_vars

----------------------------------------------------------------------------
(* C1: the groups returned by get_peaks_group (accepted families and the   *)
(* trailing leftover group) together cover exactly the peak indices        *)
(* 0..len(peaks)-1, with exclusive=True and exclusive=False alike.         *)
C1_UnionIsAllPeaks ==
    pc = "grouped" =>
        UNION {groups[i].members : i \in 1..Len(groups)} = 0..(npeaks - 1)

\* a family was rejected and a family was accepted, and peaks are left over
C1_Witness ==
    /\ pc = "grouped"
    /\ Len(groups) = 2
    /\ Len(ana_res) = 2
    /\ groups[2].members # {}
    /\ groups[1].members # {}

(* C2: with exclusive=True the returned groups are pairwise disjoint.      *)
C2_ExclusiveDisjoint ==
    (pc = "grouped" /\ exclusive) =>
        \A i, j \in 1..Len(groups) :
            i # j => groups[i].members \cap groups[j].members = {}

\* exclusive run in which an overlapping family was turned down
C2_Witness ==
    /\ pc = "grouped"
    /\ exclusive
    /\ Len(ana_res) = 2
    /\ ana_res[1].peaks_family \cap ana_res[2].peaks_family # {}
    /\ ana_res[1].avg_dist < Inf
    /\ ana_res[2].avg_dist < Inf
    /\ Len(groups) = 2

(* C5: after fit_predict, any two clusters with final labels La < Lb have  *)
(* mean(values labelled La) <= mean(values labelled Lb).                   *)
C5_LabelsOrderedByMean ==
    pc = "clustered" =>
        \A i, j \in 1..Len(labels) :
            labels[i] < labels[j] =>
                RatLeq(MeanOf(dists, labels, labels[i]),
                       MeanOf(dists, labels, labels[j]))

(* C6: in the final labels a value carries -1 if and only if the density   *)
(* pass left it unassigned.                                                *)
C6_OutlierLabelKept ==
    pc = "clustered" =>
        \A i \in 1..Len(labels) : (labels[i] = -1) <=> (model_labels[i] = -1)

(* C3: every PeakAnalysisResult returned by analyze_peaks_distance_cent    *)
(* was matched on at least 2 distinct grid multiples, and so has at least  *)
(* 2 member peaks.                                                         *)
C3_AtLeastTwoMultiples ==
    pc = "analyzed" =>
        \A k \in 1..Len(families) :
            /\ Cardinality({families[k].matched[i] :
                               i \in families[k].peaks_family}) >= 2
            /\ Cardinality(families[k].peaks_family) >= 2

\* a run that returned a family, and one that turned a hypothesis down
C3_Witness ==
    /\ pc = "analyzed"
    /\ Len(families) >= 1
    /\ Cardinality(families[1].peaks_family) < Len(peaks)

\* the smallest distance of a peak to the domain midpoint
MinCenterDist ==
    CHOOSE m \in {Abs(peaks[i] - speclen \div 2) : i \in 1..Len(peaks)} :
        \A i \in 1..Len(peaks) : m <= Abs(peaks[i] - speclen \div 2)

(* C4: when the peak closest to the domain midpoint lies farther than      *)
(* abs_tolerant from it, no center is selected and the engine returns an   *)
(* empty family list, for both entry points.                               *)
C4_NoCenterNoFamilies ==
    (pc = "analyzed" /\ Len(peaks) > 0 /\ MinCenterDist > abs_tolerant) =>
        /\ families = <<>>
        /\ ~ana_raised

\* the fractions get_group_intensity returned add up to 1
PercentSumIsOne ==
    /\ \A k \in 1..Len(group_percent.val) : group_percent.val[k].den # 0
    /\ RatEq(RatSum(group_percent.val), Rat(1, 1))

(* C7: when at least one label has a nonzero mask, the relative            *)
(* intensities get_group_intensity returns, one per label, sum to 1.       *)
C7_SumIsOneIfSomeMask ==
    (pc = "gi_done" /\ \E k \in 1..Len(label_masks) : label_masks[k] # {}) =>
        /\ Len(group_percent.val) = NLabels
        /\ PercentSumIsOne

(* C7, amended: when the intensities of the labels do not sum to zero, the *)
(* relative intensities get_group_intensity returns, one per label, sum to *)
(* 1, each being the label's intensity (the pattern summed over the        *)
(* label's mask) divided by the sum of all labels' intensities.            *)
C7_SumIsOneIfSomeIntensity ==
    (pc = "gi_done" /\ SumSeq(group_intensity) # 0) =>
        /\ Len(group_percent.val) = NLabels
        /\ Len(group_intensity) = NLabels
        /\ \A k \in 1..NLabels :
              /\ group_intensity[k] = MaskIntensity(pattern, label_masks[k])
              /\ group_percent.val[k].den # 0
              /\ RatEq(group_percent.val[k],
                       Rat(group_intensity[k], SumSeq(group_intensity)))
        /\ PercentSumIsOne

\* a finished run with two labels, both of nonzero intensity
C7_Witness ==
    /\ pc = "gi_done"
    /\ NLabels = 2
    /\ group_intensity[1] > 0
    /\ group_intensity[2] > 0

(* C8: once the mixture fit of a region has raised, get_group_intensity    *)
(* does not raise: the warning is there, the region's parameters are the   *)
(* initial guess, and the call goes on to return.                          *)
C8_FitFailureStillReturns ==
    fit_failed # {} =>
        /\ pc # "gi_raised"
        /\ \A rid \in fit_failed :
              /\ gauss_fit[rid] = Guess(regions[rid + 1], collapses_peaks[rid + 1])
              /\ \E k \in 1..Len(warnings) :
                    warnings[k] = <<"Gaussian Fail, split regions equally", rid>>

(* C9: a call of the fitter is always left again: if the fitter does not   *)
(* return, the time budget ends the call and the fallback is taken, so     *)
(* get_group_intensity eventually completes.                               *)
C9_FitterCallIsLeft ==
    [](pc = "gi_fitting" => <>(pc # "gi_fitting"))

(* C10: no mask-composition failure ends get_group_intensity, whether the  *)
(* region has one peak or several: it is caught and warned about.          *)
C10_CompositionFailureCaught ==
    gi_error # "mask composition"

\* the spacing of the first two peaks
Spacing == peaks[2] - peaks[1]

\* the spectrum's peaks are evenly spaced and one of them is the midpoint
EvenlySpaced ==
    /\ pc = "analyzed"
    /\ entry = "spectrum"
    /\ Len(peaks) >= 2
    /\ \A i \in 1..(Len(peaks) - 1) : peaks[i + 1] - peaks[i] = Spacing
    /\ \E i \in 1..Len(peaks) : peaks[i] = speclen \div 2

\* the engine returned one family, of all the peaks, with the spacing d
OneFamilyOfAll(d) ==
    /\ ~ana_raised
    /\ Len(families) = 1
    /\ families[1].peaks_family = 0..(Len(peaks) - 1)
    /\ RatEq(families[1].avg_dist, Rat(d, 1))

ChainEnds == {x \in Range(dists) : ~\E y \in Range(dists) : x < y /\ y <= x + eps}

\* the rank of the chain of dists[i] among the chains, by ascending value
ChainRank(i) == Cardinality({x \in ChainEnds : x < dists[i]})

(* C12: with min_samples=1 two values get the same final label exactly     *)
(* when a chain of input values with gaps <= eps links them, and the final *)
(* labels are 0..m-1 for the m chains numbered by ascending mean, whatever *)
(* the order of the input values.                                          *)
C12_LabelsAreChainRanks ==
    (pc = "clustered" /\ min_samples = 1) =>
        /\ \A i \in 1..Len(dists) : labels[i] = ChainRank(i)
        /\ Range(labels) = 0..(Cardinality(ChainEnds) - 1)
        /\ \A i, j \in 1..Len(labels) :
              labels[i] < labels[j] =>
                  RatLess(MeanOf(dists, labels, labels[i]),
                          MeanOf(dists, labels, labels[j]))

\* three chains, one of them of two values, given in descending order
C12_Witness ==
    /\ pc = "clustered"
    /\ min_samples = 1
    /\ Cardinality(ChainEnds) = 3
    /\ Len(dists) = 4
    /\ \A i \in 1..(Len(dists) - 1) : dists[i] >= dists[i + 1]
    /\ labels = <<2, 1, 0, 0>>

(* C13: after any sequence of Spectrum mutations, in place or copying,    *)
(* every Spectrum has len(ws) = len(spec), the length it started with, and *)
(* the ws it started with.                                                 *)
C13_LengthAndWsKept ==
    pc = "mutate" =>
        \A o \in 1..Len(sp_heap) :
            /\ Len(sp_heap[o].spec.n) = Len(sp_heap[o].ws)
            /\ Len(sp_heap[o].ws) = Len(sp_ws0)
            /\ sp_heap[o].ws = sp_ws0

\* a copy was made, and then filling_flat filled a saturated sample in
C13_Witness ==
    /\ pc = "mutate"
    /\ sp_steps = 2
    /\ Len(sp_heap) = 2
    /\ sp_last.op = "filling_flat"
    /\ sp_last.raised = "none"
    /\ sp_last.inplace
    /\ sp_heap[sp_cur].spec # sp_last.before.spec

(* C14: an operation called with inplace=False returns a new Spectrum and  *)
(* leaves the receiver's spec and ws as they were; called with             *)
(* inplace=True it returns the receiver.                                   *)
C14_InplaceContract ==
    (sp_last.op # "none" /\ sp_last.raised = "none") =>
        IF sp_last.inplace
        THEN sp_last.ret = sp_last.recv
        ELSE /\ sp_last.ret # sp_last.recv
             /\ sp_heap[sp_last.recv] = sp_last.before

\* the spectrum normalization returned
Normalized == sp_heap[sp_last.ret].spec

\* the value range max - min of the spectrum normalization was called on
RangeBefore ==
    Rat(MaxOf(sp_last.before.spec.n) - MinOf(sp_last.before.spec.n),
        sp_last.before.spec.d)

\* all values in [0,1] and the smallest is 0
InUnitInterval(spec) ==
    /\ \A i \in 1..Len(spec.n) : 0 <= spec.n[i] /\ spec.n[i] <= spec.d
    /\ MinOf(spec.n) = 0

\* 1 - max <= 1e-5
MaxNearOne(spec) == (spec.d - MaxOf(spec.n)) * GuardInv <= spec.d

(* C16: after normalization, for every input spectrum, all values lie in   *)
(* [0,1], the minimum is 0 and the maximum is within 1e-5 of 1.            *)
C16_NormalizedMinMax ==
    sp_last.op = "normalization" =>
        InUnitInterval(Normalized) /\ MaxNearOne(Normalized)

(* C16, amended: after normalization all values lie in [0,1] and the       *)
(* minimum is 0; the maximum is within 1e-5 of 1 when the input's range    *)
(* max - min is at least 1.                                                *)
C16_NormalizedMinMaxWideRange ==
    sp_last.op = "normalization" =>
        /\ InUnitInterval(Normalized)
        /\ RatLeq(Rat(1, 1), RangeBefore) => MaxNearOne(Normalized)

\* normalization of a spectrum of three different values with range >= 1
C16_Witness ==
    /\ sp_last.op = "normalization"
    /\ RatLeq(Rat(1, 1), RangeBefore)
    /\ Cardinality(Range(sp_last.before.spec.n)) = 3
    /\ MinOf(sp_last.before.spec.n) # 0
    /\ MaxNearOne(Normalized)

\* remove_background raises LinAlgError on spectrum k as it was handed in
SingularBaseline(k) ==
    remove_background(cc_before[k].spec, cc_before[k].ws, 2).raised = "LinAlgError"

\* spectrum k went through the steps asked for after background removal
RemainingStepsDone(k) ==
    /\ cc_flags.scale => <<k, "normalize">> \in Range(cc_log)
    /\ cc_flags.smooth => <<k, "smooth">> \in Range(cc_log)

\* spectrum k went through every step asked for
AllStepsDone(k) ==
    /\ RemainingStepsDone(k)
    /\ (cc_flags.rm_bg /\ ~SingularBaseline(k)) =>
           <<k, "remove_background">> \in Range(cc_log)

(* C15: when remove_background meets a singular baseline system on one     *)
(* region spectrum, clean_collapse warns about it and raises nothing,      *)
(* leaves that spectrum's intensities unmodified by background removal,    *)
(* and goes on with the remaining steps on it and with the other spectra.  *)
C15_SingularBaselineTolerated ==
    (pc = "cleaned" /\ cc_flags.rm_bg) =>
        \A k \in 1..Len(cc_before) :
            SingularBaseline(k) =>
                /\ cc_raised = "none"
                /\ k \in Range(cc_warnings)
                /\ <<k, "remove_background">> \notin Range(cc_log)
                /\ (~cc_flags.scale /\ ~cc_flags.smooth) =>
                       cc_collapses[k] = cc_before[k]
                /\ RemainingStepsDone(k)
                /\ \A j \in 1..Len(cc_before) : j # k => AllStepsDone(j)

\* the background component of the model built: the one after the peaks
Background == fm_sub_models[fm_npeaks + 1]

(* C17: from_peaks builds the background as a Chebyshev polynomial model   *)
(* exactly when config.use_cheby_poly is True, and as an ordinary          *)
(* polynomial model when it is False.                                      *)
C17_ChebyshevWhenAsked ==
    (pc = "built" /\ fm_raised = "none") =>
        Background.class = IF fm_config.use_cheby_poly
                           THEN "ChebyshevPolynomialModel"
                           ELSE "PolynomialModel"

\* the blobs (1-based positions) of radius >= rmin
Eligible == {k \in 1..Len(bm_blobs) : bm_blobs[k].r >= bm_rmin}

\* the top-most eligible blobs: those of the smallest x
TopMost == {k \in Eligible : \A j \in Eligible : bm_blobs[k].x <= bm_blobs[j].x}

(* C18: get_direct_beam returns the coordinates of the top-most blob with  *)
(* radius >= rmin and that same blob's index in self.blobs, for any blob   *)
(* list that holds such a blob.                                            *)
C18_IndexOfReturnedBlob ==
    (pc = "beam_done" /\ bm_stored /\ Eligible # {}) =>
        /\ bm_raised = "none"
        /\ \E k \in TopMost :
              /\ bm_db = <<bm_blobs[k].x, bm_blobs[k].y>>
              /\ bm_db_i = k - 1

(* C19: in the list analyze_peaks_distance_cent returns, no pair of peaks  *)
(* that are together in an accepted family is contained in a later         *)
(* accepted family, and no peak of an accepted family is the seed of a     *)
(* later one.                                                              *)
C19_NoPairReclaimed ==
    pc = "analyzed" =>
        \A a \in 1..Len(families), b \in 1..Len(families) :
            a < b =>
                /\ \A x \in families[a].peaks_family, y \in families[a].peaks_family :
                      x # y => ~({x, y} \subseteq families[b].peaks_family)
                /\ families[b].seed \notin families[a].peaks_family

\* the full polar distance matrix of the peak positions
PolarMatrix ==
    get_peaks_distance([i \in 1..Len(peaks) |-> ws_start + peaks[i]], TRUE, TRUE)

\* the position (1-based) of the row the distances were taken from
CenterRow == IF center_peak_i < 0 THEN Len(peaks) + center_peak_i + 1
             ELSE center_peak_i + 1

(* C20: the center-relative distances handed to the family search are      *)
(* signed: every peak left of the center has a negative center_nbr_dist    *)
(* and every peak right of it a positive one, for either entry point; and  *)
(* get_peaks_distance(full=True, polar=True) is antisymmetric.             *)
C20_SignedCenterDistances ==
    (pc = "analyzed" /\ center_nbr_dists # <<>>) =>
        /\ \A i \in 1..Len(peaks), j \in 1..Len(peaks) :
              PolarMatrix[i][j] = -PolarMatrix[j][i]
        /\ \A i \in 1..Len(peaks) :
              /\ peaks[i] < peaks[CenterRow] => center_nbr_dists[i] < 0
              /\ peaks[i] > peaks[CenterRow] => center_nbr_dists[i] > 0

\* where index i comes in the order c-1, c+1, c-2, c+2, ...
NbrRank(i) == 2 * Abs(i - nb_center_i) + (IF i > nb_center_i THEN 1 ELSE 0)

(* C21: for a center index c with 0 <= c <= max(idxs), get_all_nbr_idxs    *)
(* yields every index of 0..max(idxs) other than c exactly once, in the    *)
(* order c-1, c+1, c-2, c+2, ..., left before right at equal distance,     *)
(* and stops: it never runs more passes than the longer side has indices,  *)
(* plus one.                                                               *)
C21_AlternatingNearToFar ==
    (pc \in {"nbr", "nbr_done"} /\ nb_center_i >= 0) =>
        /\ nb_level <= Max(nb_center_i, nb_maxidx - nb_center_i) + 1
        /\ \A k \in 1..Len(nb_out), l \in 1..Len(nb_out) :
              k < l => NbrRank(nb_out[k]) < NbrRank(nb_out[l])
        /\ Range(nb_out) \subseteq (0..nb_maxidx) \ {nb_center_i}
        /\ pc = "nbr_done" => Range(nb_out) = (0..nb_maxidx) \ {nb_center_i}

\* the example: center 3 over 0..4 has yielded 2, 4, 1, 0 and stopped
C21_Witness ==
    /\ pc = "nbr_done"
    /\ nb_center_i = 3
    /\ nb_maxidx = 4
    /\ nb_out = <<2, 4, 1, 0>>

\* the multiples k with start <= center + k*dist <= end
MultiplesInside ==
    {k \in (-MaxGridEnd)..MaxGridEnd :
        gr_start <= gr_center + k * gr_dist /\ gr_center + k * gr_dist <= gr_end}

(* C22: create_grid returns, as offsets k*dist in ascending order, exactly *)
(* the multiples k with start <= center + k*dist <= end; it holds the      *)
(* multiple 0 whenever start <= center <= end.                             *)
C22_GridIsClosedInterval ==
    pc = "grid_done" =>
        /\ Range(gr_grid) = {k * gr_dist : k \in MultiplesInside}
        /\ \A i \in 1..(Len(gr_grid) - 1) : gr_grid[i] < gr_grid[i + 1]
        /\ (gr_start <= gr_center /\ gr_center <= gr_end) => 0 \in Range(gr_grid)

\* the grid the entry point's call builds for the seed distance dist
GridLines(dist) ==
    Range(create_grid(0, IF entry = "spectrum" THEN ws_start + speclen - 1 ELSE speclen,
                      peaks[CenterRow], dist))

\* the distance of peak i (1-based) to its nearest grid line
Residual(i, dist) ==
    CHOOSE e \in 0..(2 * MaxSpecLen) :
        /\ \E g \in GridLines(dist) : Abs(center_nbr_dists[i] - g) = e
        /\ \A g \in GridLines(dist) : Abs(center_nbr_dists[i] - g) >= e

\* residual < min(tolerant * dist, abs_tolerant)
ResidualAccepted(i, dist) ==
    /\ Residual(i, dist) * tolerant.den < tolerant.num * dist
    /\ Residual(i, dist) < abs_tolerant

MatchedMultiples(k) ==
    {families[k].matched[i] : i \in families[k].peaks_family}

\* m and n are neighbours among the matched multiples of family k
NeighbourMultiples(k, m, n) ==
    /\ m \in MatchedMultiples(k) /\ n \in MatchedMultiples(k)
    /\ m < n
    /\ \A x \in MatchedMultiples(k) : ~(m < x /\ x < n)

(* C24: in every returned family the sorted distinct grid multiples        *)
(* matched by its members have consecutive differences of at most          *)
(* allow_discontinue + 1.                                                  *)
C24_FamiliesAreContinuous ==
    pc = "analyzed" =>
        \A k \in 1..Len(families) :
            \A m \in MatchedMultiples(k), n \in MatchedMultiples(k) :
                NeighbourMultiples(k, m, n) => n - m <= allow_discontinue + 1

\* a family that skips one grid line, as allow_discontinue = 1 permits
C24_Witness ==
    /\ pc = "analyzed"
    /\ allow_discontinue = 1
    /\ \E k \in 1..Len(families) :
          \E m \in MatchedMultiples(k), n \in MatchedMultiples(k) :
              NeighbourMultiples(k, m, n) /\ n - m = 2

\* the entries before the trailing one
AcceptedGroups == SubSeq(groups, 1, Len(groups) - 1)

(* C25: the list get_peaks_group returns always ends with the leftover     *)
(* pseudo-group of distance -1, also when that group is empty or there are *)
(* no families, and the entries before it are families of the input in     *)
(* non-decreasing avg_dist order.                                          *)
C25_LeftoverLastFamiliesSorted ==
    pc = "grouped" =>
        /\ Len(groups) >= 1
        /\ groups[Len(groups)].leftover
        /\ groups[Len(groups)].dist = LeftoverDist
        /\ \A k \in 1..Len(AcceptedGroups) :
              /\ ~AcceptedGroups[k].leftover
              /\ \E i \in 1..Len(ana_res) :
                    /\ ana_res[i].peaks_family = AcceptedGroups[k].members
                    /\ ana_res[i].avg_dist = AcceptedGroups[k].dist
        /\ \A k \in 1..(Len(AcceptedGroups) - 1) :
              AcceptedGroups[k].dist <= AcceptedGroups[k + 1].dist

\* two families handed in with the larger distance first, both accepted,
\* no peak left over
C25_Witness ==
    /\ pc = "grouped"
    /\ Len(ana_res) = 2
    /\ ana_res[1].avg_dist > ana_res[2].avg_dist
    /\ Len(groups) = 3
    /\ groups[3].members = {}

\* family i comes before family j in the sorted order (the sort is stable)
Precedes(i, j) ==
    \/ ana_res[i].avg_dist < ana_res[j].avg_dist
    \/ ana_res[i].avg_dist = ana_res[j].avg_dist /\ i < j

\* A is the set of accepted families under the rule of the claim
IsAcceptedSet(A) ==
    \A i \in 1..Len(ana_res) :
        i \in A <=>
            /\ ana_res[i].avg_dist < Inf
            /\ exclusive =>
                   \A j \in A : Precedes(j, i) =>
                       ana_res[j].peaks_family \cap ana_res[i].peaks_family = {}

\* how many families of A come before family i
RankIn(A, i) == Cardinality({j \in A : Precedes(j, i)})

(* C26: with exclusive=True get_peaks_group accepts a family if and only   *)
(* if its avg_dist is finite and none of its members belongs to an         *)
(* accepted family that comes before it (smaller avg_dist, or equal and    *)
(* listed earlier); a rejected family claims no peaks, so the leftover     *)
(* group is what the accepted families do not hold.  With exclusive=False  *)
(* every family of finite avg_dist is accepted.                            *)
C26_AcceptedIffFiniteAndUnclaimed ==
    pc = "grouped" =>
        \E A \in SUBSET (1..Len(ana_res)) :
            /\ IsAcceptedSet(A)
            /\ Len(AcceptedGroups) = Cardinality(A)
            /\ \A i \in A :
                  /\ AcceptedGroups[RankIn(A, i) + 1].members = ana_res[i].peaks_family
                  /\ AcceptedGroups[RankIn(A, i) + 1].dist = ana_res[i].avg_dist
            /\ groups[Len(groups)].members =
                  (0..(npeaks - 1)) \ UNION {ana_res[i].peaks_family : i \in A}

\* exclusive run: the nearer family is accepted, the overlapping farther one
\* is rejected and its other peak is left over
C26_Witness ==
    /\ pc = "grouped"
    /\ exclusive
    /\ Len(ana_res) = 2
    /\ ana_res[1].avg_dist > ana_res[2].avg_dist
    /\ ana_res[1].avg_dist < Inf
    /\ ana_res[1].peaks_family \cap ana_res[2].peaks_family # {}
    /\ Len(groups) = 2
    /\ groups[1].members = ana_res[2].peaks_family
    /\ groups[2].members \cap ana_res[1].peaks_family # {}

\* a step leaves every cached fit as it is
CacheKept ==
    \A rid \in DOMAIN gauss_fit :
        rid \in DOMAIN gauss_fit' /\ gauss_fit'[rid] = gauss_fit[rid]

\* the peaks of region rid that get_group_intensity carves: family members
\* that are no center peaks
CarvedPeaks(rid) ==
    {p \in UNION Range(flatten_ana_res) :
        flatten_regions[p + 1] = rid /\ p \notin flatten_cis}

(* C27: within one get_group_intensity invocation the mixture fitter is    *)
(* called at most once per region, whether the fit succeeded or failed;    *)
(* the invocation starts from an empty cache, a region is in the cache     *)
(* only after its one fitter call, and a cached entry is never             *)
(* overwritten.                                                            *)
C27_FitOncePerRegion ==
    /\ [](\A r \in 1..Len(fit_calls) :
             /\ fit_calls[r] <= 1
             /\ (r - 1) \in DOMAIN gauss_fit => fit_calls[r] = 1)
    /\ [][CacheKept]_vars

\* the fit of a region failed, and a second peak of that region was carved
\* from the cached fallback
C27_Witness ==
    /\ pc = "gi_done"
    /\ \E rid \in fit_failed :
          /\ fit_calls[rid + 1] = 1
          /\ Cardinality(CarvedPeaks(rid)) >= 2

\* how many families the patterns before pattern i (1-based) have
FamiliesBefore(i) == SumSeq([h \in 1..(i - 1) |-> Len(ph_rdms[h])])

(* C28: run_cluster clusters exactly one value per family of every         *)
(* pattern, the complete set; when it has returned, each pattern's         *)
(* cluster_labels has one entry per family of that pattern, entry j being  *)
(* the label the clustering gave that pattern's j-th family; a second run  *)
(* with the same parameters yields the same labels.                        *)
C28_LabelsPerFamily ==
    (pc = "phaser" /\ ph_runs >= 1 /\ ph_raised = "none") =>
        /\ Len(ph_all_peak_dists) = FamiliesBefore(Len(ph_rdms) + 1)
        /\ Len(ph_labels) = Len(ph_all_peak_dists)
        /\ \A i \in 1..Len(ph_rdms) :
              /\ Len(ph_cluster_labels[i]) = Len(ph_rdms[i])
              /\ \A j \in 1..Len(ph_rdms[i]) :
                    /\ ph_all_peak_dists[FamiliesBefore(i) + j]
                           = <<<<i - 1, j - 1>>, ph_rdms[i][j]>>
                    /\ ph_cluster_labels[i][j] = ph_labels[FamiliesBefore(i) + j]
        /\ ph_runs >= 2 => ph_cluster_labels = ph_prev

\* second run over two patterns with families in two clusters
C28_Witness ==
    /\ pc = "phaser"
    /\ ph_runs = 2
    /\ ph_raised = "none"
    /\ Len(ph_rdms) = 2
    /\ Len(ph_rdms[1]) = 2
    /\ Len(ph_rdms[2]) = 1
    /\ ph_cluster_labels[1][1] # ph_cluster_labels[1][2]
    /\ ph_cluster_labels[2][1] = ph_cluster_labels[1][1]

(* C29: after fit_predict mean_dists is sorted ascending and has exactly   *)
(* one entry per distinct final label, mean_dists[L] is the mean of the    *)
(* values carrying final label L for every L >= 0, and the outlier label   *)
(* contributes the sentinel only, so that the table has one entry per      *)
(* label of the density pass.                                              *)
C29_MeanTablePerLabel ==
    pc = "clustered" =>
        /\ \A k \in 1..(Len(mean_dists) - 1) : RatLeq(mean_dists[k], mean_dists[k + 1])
        /\ Len(mean_dists) = Cardinality(Range(labels))
        /\ Len(mean_dists) = Cardinality(Range(model_labels))
        /\ \A L \in Range(labels) :
              L >= 0 => /\ L + 1 <= Len(mean_dists)
                        /\ RatLeq(mean_dists[L + 1], MeanOf(dists, labels, L))
                        /\ RatLeq(MeanOf(dists, labels, L), mean_dists[L + 1])

(* C30: for a pattern with no families, and so an empty                    *)
(* cluster_labels_unique, get_group_intensity returns an empty intensity   *)
(* array and an empty fraction array and does not raise.                   *)
C30_NoFamiliesReturnsEmpty ==
    (flatten_ana_res = <<>> /\ cluster_labels_unique = <<>>
                            /\ pc \in {"gi_done", "gi_raised"}) =>
        /\ pc = "gi_done"
        /\ gi_error = "none"
        /\ group_intensity = <<>>
        /\ group_percent = [bound |-> TRUE, val |-> <<>>]

====
